---- MODULE Spec2Model ----
(***************************************************************************)
(* A model of uxarray's nearest-neighbour remapping                        *)
(* (uxarray/remap/nearest_neighbor.py), of its polygon geometry            *)
(* (uxarray/grid/geometry.py), of the geometry exports and the difference  *)
(* and gradient of a UxDataArray (uxarray/core/dataarray.py), and of the   *)
(* plotting backend (uxarray/plot/utils.py).                               *)
(*                                                                         *)
(* Arrays are numpy arrays: a shape and the values in row-major order.     *)
(* Angles are whole degrees; the sphere positions used are the six axis    *)
(* points, where the haversine and the Euclidean distance are exact in     *)
(* integers.                                                               *)
(***************************************************************************)
EXTENDS Integers, Sequences, FiniteSets, TLC

VARIABLES
    \* ---- remapping: the arguments of one call, and what it did
    source_grid,               \* Grid: counts and coordinates of the source mesh
    destination_grid,          \* Grid of the destination mesh
    source_data,               \* np.ndarray (for _nearest_neighbor_uxda: source_uxda.data)
    remap_to,                  \* str
    coord_type,                \* str
    pc,                        \* "call" before the call, "done" after it
    entry,                     \* which function was called
    raised,                    \* "none", or the error the call raised
    tree_requests,             \* the get_ball_tree calls made on source_grid, in order
    nearest_neighbor_indices,  \* what _source_tree.query returned (None before)
    destination_data,          \* the array returned by _nearest_neighbor (None if none)
    uxda_remap,                \* the UxDataArray returned by _nearest_neighbor_uxda
    \* ---- geometry: a mesh and the geometry derived from it so far
    mesh,                      \* node coordinates and face-node connectivity
    polygon_shells,            \* Grid.polygon_shells (None until built)
    antimeridian_face_indices, \* Grid.antimeridian_face_indices (None until built)
    corrected_polygon_shells,  \* Grid.corrected_polygon_shells (None until built)
    original_to_corrected,     \* the index map built with them (None until built)
    polygons,                  \* what grid_to_polygons returned (None before)
    fix_polygon_calls,         \* the faces (0-based) whose polygon the last geometry
                               \* builder gave to antimeridian.fix_polygon, in order
    \* ---- a UxDataArray on the mesh, one call of a method of it, and what it did
    uxda,                      \* the UxDataArray: its dims and its values
    arguments,                 \* the arguments of the call, by parameter name
    grid_calls,                \* the methods the call invoked on uxda.uxgrid, in order
    gdf,                       \* the GeoDataFrame to_geodataframe returned
    poly_collection,           \* what to_polycollection returned
    uxda_out,                  \* the UxDataArray difference or gradient returned
    warned,                    \* the warnings the call emitted, in order
    \* ---- a session of calls on one mesh
    cached,                    \* what the mesh has cached: spatial indices, exported geometry
    replayed,                  \* the mesh's caches after the calls that were not rejected
    \* ---- plotting: the HoloviewsBackend object and the calls of its assign
    backend,                   \* HoloviewsBackend.backend
    hv_extensions,             \* the backends hv.extension was called with, in order
    assigned                   \* the backends assign was called with, in order

\* the remapping variables but raised
remap_call == <<source_grid, destination_grid, source_data, remap_to, coord_type,
                pc, entry, tree_requests, nearest_neighbor_indices,
                destination_data, uxda_remap>>

remap_vars == <<remap_call, raised>>

geometry_vars == <<mesh, polygon_shells, antimeridian_face_indices,
                   corrected_polygon_shells, original_to_corrected, polygons,
                   fix_polygon_calls>>

dataarray_vars == <<uxda, arguments, grid_calls, gdf, poly_collection, uxda_out, warned>>

session_vars == <<cached, replayed>>

plot_vars == <<backend, hv_extensions, assigned>>

vars == <<remap_vars, geometry_vars, dataarray_vars, session_vars, plot_vars>>

\* no value (of an array, a mesh, a cached property), and no name
None == <<>>
Unset == "None"

\* no UxDataArray and no call of a method of one
NoDataArray ==
    /\ uxda = None
    /\ arguments = None
    /\ grid_calls = <<>>
    /\ gdf = None
    /\ poly_collection = None
    /\ uxda_out = None
    /\ warned = <<>>

\* a mesh that has cached no spatial index and no exported geometry, outside
\* a session
NothingCached == [ball_trees |-> {}, gdf |-> None, poly_collection |-> None]

NoSession ==
    /\ cached = NothingCached
    /\ replayed = None

\* HoloviewsBackend(): no backend yet, and no call of assign
NoPlot ==
    /\ backend = Unset
    /\ hv_extensions = <<>>
    /\ assigned = <<>>

(***************************************************************************)
(* Bounds of the model.                                                    *)
(***************************************************************************)
\* the largest n_node, n_edge, n_face of a mesh
MaxN == 3
\* the largest length of a leading (non-spatial) dimension of a field
MaxLead == 2
\* the largest number of faces of a mesh whose geometry is built
MaxFaces == 2
\* the largest number of nodes of a face
MaxFaceNodes == 4
\* the largest number of parts the antimeridian fix cuts a polygon into
MaxParts == 2
\* the largest number of calls of HoloviewsBackend.assign
MaxAssigns == 4

(***************************************************************************)
(* numpy arrays.                                                           *)
(***************************************************************************)
RECURSIVE Prod(_)
Prod(s) == IF s = <<>> THEN 1 ELSE Head(s) * Prod(Tail(s))

Front(s) == SubSeq(s, 1, Len(s) - 1)
Last(s) == s[Len(s)]

NdArray(shape, flat) == [shape |-> shape, flat |-> flat]
Ndim(a) == Len(a.shape)

\* the field whose value at every position is its own row-major offset: every
\* position holds a different value, so a copy from a wrong place shows
Arange(shape) == NdArray(shape, [p \in 1..Prod(shape) |-> p - 1])

\* numpy.ndarray.squeeze(): every dimension of length 1 is removed
Squeeze(a) == NdArray(SelectSeq(a.shape, LAMBDA d : d # 1), a.flat)

\* a[..., idx] for an integer index array idx (0-based indices): the trailing
\* dimension is replaced by the dimensions of idx
TakeLast(a, idx) ==
    LET n    == Last(a.shape)
        lead == Prod(Front(a.shape))
        m    == Prod(idx.shape)
    IN  NdArray(Front(a.shape) \o idx.shape,
                [p \in 1..(lead * m) |->
                    a.flat[((p - 1) \div m) * n + idx.flat[((p - 1) % m) + 1] + 1]])

(***************************************************************************)
(* Coordinates.                                                            *)
(***************************************************************************)
CosDeg(d) == LET r == d % 360 IN IF r = 0 THEN 1 ELSE IF r = 180 THEN -1 ELSE 0
SinDeg(d) == CosDeg(d - 90)

LonLat(lon, lat) == [lon |-> lon, lat |-> lat]

\* the six axis points of the sphere, as (lon, lat) in degrees
AxisPoints == << LonLat(0, 0), LonLat(90, 0), LonLat(0, 90),
                 LonLat(180, 0), LonLat(-90, 0), LonLat(0, -90) >>

\* the Cartesian coordinates of a (lon, lat) position on the unit sphere
ToCartesian(p) == << CosDeg(p.lat) * CosDeg(p.lon),
                     CosDeg(p.lat) * SinDeg(p.lon),
                     SinDeg(p.lat) >>

\* twice the haversine of the angle between p and q: the haversine metric is
\* 2 asin(sqrt(hav)), which grows with hav
Haversine2(p, q) ==
    (1 - CosDeg(q.lat - p.lat))
        + CosDeg(p.lat) * CosDeg(q.lat) * (1 - CosDeg(q.lon - p.lon))

\* the squared Euclidean (Minkowski, p = 2) distance of two Cartesian points
Euclidean2(u, v) ==
    (u[1] - v[1]) * (u[1] - v[1]) + (u[2] - v[2]) * (u[2] - v[2])
        + (u[3] - v[3]) * (u[3] - v[3])

(***************************************************************************)
(* Meshes.  A Grid holds the three element counts and, per element kind,   *)
(* the (lon, lat) of every element; its Cartesian arrays are the same      *)
(* positions on the unit sphere.                                           *)
(***************************************************************************)
Kinds == {"nodes", "edge centers", "face centers"}

Count(grid, kind) ==
    CASE kind = "nodes"        -> grid.n_node
      [] kind = "edge centers" -> grid.n_edge
      [] kind = "face centers" -> grid.n_face

\* the (lon, lat) pairs of the elements of one kind: (node_lon, node_lat),
\* (edge_lon, edge_lat) or (face_lon, face_lat)
LonLatOf(grid, kind) ==
    CASE kind = "nodes"        -> grid.node
      [] kind = "edge centers" -> grid.edge
      [] kind = "face centers" -> grid.face

\* the Cartesian arrays, had they left the z of every element at 0
CartesianOfEquator(grid, kind) ==
    [i \in 1..Count(grid, kind) |->
        << ToCartesian(LonLatOf(grid, kind)[i])[1],
           ToCartesian(LonLatOf(grid, kind)[i])[2], 0 >>]

\* (node_x, node_y, node_z), (edge_x, ...) or (face_x, ...)
CartesianOf(grid, kind) ==
    [i \in 1..Count(grid, kind) |-> ToCartesian(LonLatOf(grid, kind)[i])]

\* Where the elements of a mesh sit: element i of a kind is the axis point
\* number first + KindOffset + stride * (i - 1), counted cyclically.  Stride 0
\* is a degenerate mesh, all elements of a kind in one place.
RegularLayout    == [first |-> 0, stride |-> 1]
DegenerateLayout == [first |-> 2, stride |-> 0]

KindOffset(kind) ==
    CASE kind = "nodes"        -> 0
      [] kind = "edge centers" -> 1
      [] kind = "face centers" -> 3

Place(layout, kind, n) ==
    [i \in 1..n |->
        AxisPoints[((layout.first + KindOffset(kind) + layout.stride * (i - 1))
                        % Len(AxisPoints)) + 1]]

\* a connected mesh of nn nodes and nf faces: by Euler's formula it has
\* nn + nf - 1 edges
MakeGrid(nn, nf, layout) ==
    [n_node |-> nn, n_edge |-> nn + nf - 1, n_face |-> nf,
     node |-> Place(layout, "nodes", nn),
     edge |-> Place(layout, "edge centers", nn + nf - 1),
     face |-> Place(layout, "face centers", nf)]

\* the meshes: one to MaxN faces on three or more nodes
SourceGrids ==
    { MakeGrid(nn, nf, layout) :
        nn \in 3..(MaxN + 2), nf \in 1..MaxN,
        layout \in {RegularLayout, DegenerateLayout} }

DestinationGrids ==
    { MakeGrid(nn, nf, RegularLayout) : nn \in 3..(MaxN + 2), nf \in 1..MaxN }

PairwiseDistinct(s) == \A i, j \in 1..Len(s) : i # j => s[i] # s[j]

(***************************************************************************)
(* The spatial index: Grid.get_ball_tree and BallTree.query.               *)
(***************************************************************************)
\* Grid.get_ball_tree(coordinates, coordinate_system, distance_metric): the
\* index over the elements of one kind, in one coordinate system
GetBallTree(grid, coordinates, coordinate_system) ==
    [coordinates |-> coordinates,
     coordinate_system |-> coordinate_system,
     points |-> IF coordinate_system = "spherical"
                THEN LonLatOf(grid, coordinates)
                ELSE CartesianOf(grid, coordinates)]

TreeDistance(tree, p, q) ==
    IF tree.coordinate_system = "spherical" THEN Haversine2(p, q)
    ELSE Euclidean2(p, q)

\* the indexed elements at the least distance from q (0-based)
Nearest(tree, q) ==
    { i \in 0..(Len(tree.points) - 1) :
        \A j \in 0..(Len(tree.points) - 1) :
            TreeDistance(tree, tree.points[i + 1], q)
                <= TreeDistance(tree, tree.points[j + 1], q) }

MinOf(S) == CHOOSE x \in S : \A y \in S : x <= y
MaxOf(S) == CHOOSE x \in S : \A y \in S : x >= y

\* how an index resolves equal distances: unspecified, but the same for every
\* query point of one query
TieBreaks == {"lowest", "highest"}

\* _source_tree.query(points, k=1): the indices, an array of shape (n, 1)
Query(tree, points, tie) ==
    NdArray(<<Len(points), 1>>,
            [j \in 1..Len(points) |->
                IF tie = "lowest" THEN MinOf(Nearest(tree, points[j]))
                ELSE MaxOf(Nearest(tree, points[j]))])

(***************************************************************************)
(* _nearest_neighbor and _nearest_neighbor_uxda.                           *)
(***************************************************************************)
InvalidShape     == "ValueError: Invalid source_data shape"
InvalidRemapTo   == "ValueError: Invalid remap_to"
InvalidCoordType == "ValueError: Invalid coord_type"
DimsMismatch     == "ValueError: different number of dimensions on data and dims"

\* the anchoring, had it looked at the faces first and at the nodes last
SourceDataMappingFacesFirst(grid, n_elements) ==
    IF n_elements = grid.n_face THEN "face centers"
    ELSE IF n_elements = grid.n_edge THEN "edge centers"
    ELSE IF n_elements = grid.n_node THEN "nodes"
    ELSE "invalid"

\* the element kind the data is anchored to, by its trailing length
SourceDataMapping(grid, n_elements) ==
    IF n_elements = grid.n_node THEN "nodes"
    ELSE IF n_elements = grid.n_edge THEN "edge centers"
    ELSE IF n_elements = grid.n_face THEN "face centers"
    ELSE "invalid"

\* the destination coordinates of the query: an invalid remap_to has none
ValidRemapTo(to) == to \in {"nodes", "edge centers", "face centers"}

DestinationPoints(grid, to, coords) ==
    IF coords = "spherical" THEN LonLatOf(grid, to) ELSE CartesianOf(grid, to)

\* the last lines of _nearest_neighbor: the values at the nearest indices
GatherData(data, indices) ==
    LET nn   == IF Ndim(indices) > 1 THEN Squeeze(indices) ELSE indices
        dest == TakeLast(data, nn)
    IN  IF Ndim(data) = 1 THEN Squeeze(dest) ELSE dest

Failed(error) ==
    [raised |-> error, tree_requests |-> <<>>,
     nearest_neighbor_indices |-> None, destination_data |-> None]

\* _nearest_neighbor with the arguments validated before the shape
NearestNeighborArgumentsFirst(src, dst, data, to, coords, tie) ==
    LET mapping == SourceDataMapping(src, Last(data.shape))
        tree    == GetBallTree(src, mapping, coords)
        indices == Query(tree, DestinationPoints(dst, to, coords), tie)
    IN  IF coords \notin {"spherical", "cartesian"} THEN Failed(InvalidCoordType)
        ELSE IF ~ValidRemapTo(to) THEN Failed(InvalidRemapTo)
        ELSE IF mapping = "invalid" THEN Failed(InvalidShape)
        ELSE [raised |-> "none",
              tree_requests |-> << <<mapping, coords>> >>,
              nearest_neighbor_indices |-> indices,
              destination_data |-> GatherData(data, indices)]

\* _nearest_neighbor with the index requested before remap_to is looked at
NearestNeighborTreeFirst(src, dst, data, to, coords, tie) ==
    LET mapping == SourceDataMapping(src, Last(data.shape))
        tree    == GetBallTree(src, mapping, coords)
        indices == Query(tree, DestinationPoints(dst, to, coords), tie)
    IN  IF mapping = "invalid" THEN Failed(InvalidShape)
        ELSE IF coords \notin {"spherical", "cartesian"} THEN Failed(InvalidCoordType)
        ELSE IF ~ValidRemapTo(to)
        THEN [raised |-> InvalidRemapTo,
              tree_requests |-> << <<mapping, coords>> >>,
              nearest_neighbor_indices |-> None, destination_data |-> None]
        ELSE [raised |-> "none",
              tree_requests |-> << <<mapping, coords>> >>,
              nearest_neighbor_indices |-> indices,
              destination_data |-> GatherData(data, indices)]

\* _nearest_neighbor(source_grid, destination_grid, source_data, remap_to,
\* coord_type): what it raised, the indices it requested and what it returned
NearestNeighbor(src, dst, data, to, coords, tie) ==
    LET mapping == SourceDataMapping(src, Last(data.shape))
        tree    == GetBallTree(src, mapping, coords)
        indices == Query(tree, DestinationPoints(dst, to, coords), tie)
    IN  IF mapping = "invalid" THEN Failed(InvalidShape)
        ELSE IF coords \notin {"spherical", "cartesian"} THEN Failed(InvalidCoordType)
        ELSE IF ~ValidRemapTo(to) THEN Failed(InvalidRemapTo)
        ELSE [raised |-> "none",
              tree_requests |-> << <<mapping, coords>> >>,
              nearest_neighbor_indices |-> indices,
              destination_data |-> GatherData(data, indices)]

\* the dimension names of a field: the leading ones, then the spatial one
DimName(i) == IF i = 1 THEN "time" ELSE "lev"
SourceDims(data) ==
    [i \in 1..Ndim(data) |-> IF i = Ndim(data) THEN "n_source" ELSE DimName(i)]

DestinationDim(to) ==
    IF to = "nodes" THEN "n_node"
    ELSE IF to = "edge centers" THEN "n_edge"
    ELSE "n_face"

DestinationDims(data, to) ==
    [i \in 1..Ndim(data) |->
        IF i = Ndim(data) THEN DestinationDim(to) ELSE SourceDims(data)[i]]

(***************************************************************************)
(* The remapping calls.                                                    *)
(***************************************************************************)
RemapTos == Kinds \cup {"cells"}
CoordTypes == {"spherical", "cartesian", "polar"}

\* the shapes of the fields on a mesh: a trailing spatial dimension of any
\* length up to one more than the largest element count, after no, one or two
\* leading dimensions
Shapes(grid) ==
    { <<n>> : n \in 1..(grid.n_edge + 1) }
        \cup { <<l, n>> : l \in 1..MaxLead, n \in 1..(grid.n_edge + 1) }
        \cup { <<MaxLead, l, n>> : l \in 1..MaxLead, n \in 1..(grid.n_edge + 1) }

InitRemap ==
    /\ source_grid \in SourceGrids
    /\ destination_grid \in DestinationGrids
    /\ source_data \in { Arange(shape) : shape \in Shapes(source_grid) }
    /\ remap_to \in RemapTos
    /\ coord_type \in CoordTypes
    /\ pc = "call"
    /\ entry = Unset
    /\ raised = "none"
    /\ tree_requests = <<>>
    /\ nearest_neighbor_indices = None
    /\ destination_data = None
    /\ uxda_remap = None
    /\ mesh = None
    /\ polygon_shells = None
    /\ antimeridian_face_indices = None
    /\ corrected_polygon_shells = None
    /\ original_to_corrected = None
    /\ polygons = None
    /\ NoDataArray
    /\ NoSession
    /\ fix_polygon_calls = <<>>
    /\ NoPlot

\* what a call can do: the index resolves equal distances one way or the other
Outcomes ==
    { NearestNeighbor(source_grid, destination_grid, source_data,
                      remap_to, coord_type, tie) : tie \in TieBreaks }

\* a call of _nearest_neighbor
CallNearestNeighbor ==
    /\ pc = "call"
    /\ \E r \in Outcomes :
         /\ raised' = r.raised
         /\ tree_requests' = r.tree_requests
         /\ nearest_neighbor_indices' = r.nearest_neighbor_indices
         /\ destination_data' = r.destination_data
    /\ entry' = "_nearest_neighbor"
    /\ pc' = "done"
    /\ UNCHANGED <<source_grid, destination_grid, source_data, remap_to,
                   coord_type, uxda_remap>>
    /\ UNCHANGED geometry_vars
    /\ UNCHANGED dataarray_vars
    /\ UNCHANGED session_vars
    /\ UNCHANGED plot_vars

\* UxDataArray(data, dims, uxgrid): the data must have one dimension per name
UxDataArrayFits(data, dims) == Len(dims) = Ndim(data)

\* a call of _nearest_neighbor_uxda on a UxDataArray holding source_data
CallNearestNeighborUxda ==
    /\ pc = "call"
    /\ \E r \in Outcomes :
         \E dims \in { DestinationDims(source_data, remap_to) } :
            /\ tree_requests' = r.tree_requests
            /\ nearest_neighbor_indices' = r.nearest_neighbor_indices
            /\ destination_data' = r.destination_data
            /\ IF r.raised # "none"
               THEN raised' = r.raised /\ uxda_remap' = None
               ELSE IF UxDataArrayFits(r.destination_data, dims)
               THEN /\ raised' = "none"
                    /\ uxda_remap' = [data |-> r.destination_data, dims |-> dims,
                                      uxgrid |-> destination_grid]
               ELSE raised' = DimsMismatch /\ uxda_remap' = None
    /\ entry' = "_nearest_neighbor_uxda"
    /\ pc' = "done"
    /\ UNCHANGED <<source_grid, destination_grid, source_data, remap_to, coord_type>>
    /\ UNCHANGED geometry_vars
    /\ UNCHANGED dataarray_vars
    /\ UNCHANGED session_vars
    /\ UNCHANGED plot_vars

NextRemap == CallNearestNeighbor \/ CallNearestNeighborUxda

SpecRemap == InitRemap /\ [][NextRemap]_vars

(***************************************************************************)
(* Positions of an array.                                                  *)
(***************************************************************************)
\* the index tuples (0-based) of an array of a shape
RECURSIVE IndexSet(_)
IndexSet(shape) ==
    IF shape = <<>> THEN { <<>> }
    ELSE { <<i>> \o r : i \in 0..(Head(shape) - 1), r \in IndexSet(Tail(shape)) }

RECURSIVE Offset(_, _)
Offset(shape, idx) ==
    IF shape = <<>> THEN 0
    ELSE idx[1] * Prod(Tail(shape)) + Offset(Tail(shape), Tail(idx))

\* a[idx]
At(a, idx) == a.flat[Offset(a.shape, idx) + 1]

Returned == pc = "done" /\ raised = "none"

\* the kind the source data of the call is anchored to
Anchor == SourceDataMapping(source_grid, Last(source_data.shape))

\* the index nn(j) the query returned for destination element j
NN(j) == nearest_neighbor_indices.flat[j + 1]

(***************************************************************************)
(* The remapping claims.                                                   *)
(***************************************************************************)
\* C1: whenever _nearest_neighbor returns, the shape of the result is the
\* shape of the input with only the trailing dimension replaced by the
\* destination mesh's element count for remap_to (every count >= 1).
RemapShapeContract ==
    Returned =>
        destination_data.shape
            = Front(source_data.shape) \o << Count(destination_grid, remap_to) >>

\* The shape contract as the code keeps it: for two or more destination
\* elements.
RemapShapeOfSeveral ==
    (Returned /\ Count(destination_grid, remap_to) >= 2) =>
        destination_data.shape
            = Front(source_data.shape) \o << Count(destination_grid, remap_to) >>

\* For a single destination element the trailing dimension is dropped.
RemapShapeOfOne ==
    (Returned /\ Count(destination_grid, remap_to) = 1) =>
        destination_data.shape = Front(source_data.shape)

\* C2: in the result, the value at (leading..., j) is the source value at
\* (leading..., nn(j)), for every leading index and destination element j,
\* where nn(j) is the nearest source element the index of the anchored kind
\* returned for element j's coordinates; the source data is not modified.
RemapGathersNearest ==
    /\ source_data = Arange(source_data.shape)
    /\ Returned =>
         LET tree   == GetBallTree(source_grid, Anchor, coord_type)
             points == DestinationPoints(destination_grid, remap_to, coord_type)
         IN  \A j \in 0..(Count(destination_grid, remap_to) - 1) :
               /\ NN(j) \in Nearest(tree, points[j + 1])
               /\ \A l \in IndexSet(Front(source_data.shape)) :
                    /\ l \o <<j>> \in IndexSet(destination_data.shape)
                    /\ At(destination_data, l \o <<j>>)
                         = At(source_data, l \o << NN(j) >>)

\* The gather in row-major order, whatever the shape of the result: value
\* number l * m + j of the result is the source value at (l, nn(j)).
RemapGathersInOrder ==
    /\ source_data = Arange(source_data.shape)
    /\ Returned =>
         LET tree   == GetBallTree(source_grid, Anchor, coord_type)
             points == DestinationPoints(destination_grid, remap_to, coord_type)
             m      == Count(destination_grid, remap_to)
             n      == Last(source_data.shape)
             lead   == Prod(Front(source_data.shape))
         IN  /\ Len(destination_data.flat) = lead * m
             /\ \A j \in 0..(m - 1) :
                  /\ NN(j) \in Nearest(tree, points[j + 1])
                  /\ \A l \in 0..(lead - 1) :
                       destination_data.flat[l * m + j + 1]
                           = source_data.flat[l * n + NN(j) + 1]

\* the call remaps face-sized data of a mesh with pairwise distinct face
\* centers onto the face centers of the same mesh
RemapsFacesToItself ==
    /\ destination_grid = source_grid
    /\ remap_to = "face centers"
    /\ Last(source_data.shape) = source_grid.n_face
    /\ coord_type \in {"spherical", "cartesian"}
    /\ PairwiseDistinct(source_grid.face)

\* C3: remapping face-centered data onto the face centers of the same mesh
\* returns the original data unchanged, for both coordinate systems.
RemapIdentity ==
    (pc = "done" /\ RemapsFacesToItself) =>
        raised = "none" /\ destination_data = source_data

\* The identity as the code keeps it: the face count is the count of no
\* other element kind (the data is anchored to the faces) and the mesh has
\* two or more faces.
RemapIdentityOfSeveralFaces ==
    (pc = "done" /\ RemapsFacesToItself /\ Anchor = "face centers"
        /\ source_grid.n_face >= 2) =>
        raised = "none" /\ destination_data = source_data

\* C4: data whose trailing length is none of the three counts is rejected as
\* an invalid shape, whatever remap_to and coord_type are, and no spatial
\* index was requested from the source mesh.
InvalidShapeRejectedFirst ==
    (pc = "done" /\ Last(source_data.shape)
                        \notin {source_grid.n_node, source_grid.n_edge, source_grid.n_face}) =>
        /\ raised = InvalidShape
        /\ tree_requests = <<>>
        /\ destination_data = None
        /\ uxda_remap = None

InvalidShapeRejectedFirstWitness ==
    /\ pc = "done"
    /\ entry = "_nearest_neighbor"
    /\ raised = InvalidShape
    /\ remap_to \notin Kinds
    /\ coord_type \notin {"spherical", "cartesian"}

INT_FILL_VALUE == -2147483647

IndexError == "IndexError"

\* whether the 0-based index i selects an element of a (a negative index
\* counts from the end)
InBounds(a, i) == i \in (-Len(a))..(Len(a) - 1)

\* a[i] for an index i in bounds
Item(a, i) == IF i >= 0 THEN a[i + 1] ELSE a[Len(a) + i + 1]

Min(a, b) == IF a < b THEN a ELSE b

Abs(v) == IF v < 0 THEN -v ELSE v

Range(s) == { s[i] : i \in DOMAIN s }

\* close_face_nodes: every row gets one more column, and the first node of the
\* face is written where the row's first fill value is
CloseFaceNodes(face_nodes, n_face, n_max) ==
    [f \in 1..n_face |->
        LET padded == face_nodes[f] \o << INT_FILL_VALUE >>
            first  == CHOOSE j \in 1..(n_max + 1) :
                          /\ padded[j] = INT_FILL_VALUE
                          /\ \A i \in 1..(j - 1) : padded[i] # INT_FILL_VALUE
        IN  [padded EXCEPT ![first] = face_nodes[f][1]]]

\* the normalisation, had it been applied from 180 on
NormalizeLongitudeFrom180(node_x) ==
    IF MaxOf(Range(node_x)) >= 180
    THEN [i \in DOMAIN node_x |-> ((node_x[i] + 180) % 360) - 180]
    ELSE node_x

\* (Mesh2_node_x + 180) % 360 - 180 when some longitude is greater than 180
NormalizeLongitude(node_x) ==
    IF MaxOf(Range(node_x)) > 180
    THEN [i \in DOMAIN node_x |-> ((node_x[i] + 180) % 360) - 180]
    ELSE node_x

\* the shell a loop pass would build if it left the padding unpadded
\* (coordinates looked up for the whole row)
PolygonShellOfWholeRow(x, y, face_nodes, max_n_nodes) ==
    IF \E j \in DOMAIN face_nodes : ~InBounds(x, face_nodes[j])
    THEN [raised |-> IndexError, shell |-> None]
    ELSE [raised |-> "none",
          shell  |-> [j \in DOMAIN face_nodes |->
                        << Item(x, face_nodes[j]), Item(y, face_nodes[j]) >>]]

\* the shell a loop pass would build if it padded with the last vertex
\* looked up instead of the first
PolygonShellPaddedWithLast(x, y, face_nodes, max_n_nodes) ==
    LET n == Min(max_n_nodes, Len(face_nodes))
    IN  IF \E j \in 1..n : ~InBounds(x, face_nodes[j])
        THEN [raised |-> IndexError, shell |-> None]
        ELSE [raised |-> "none",
              shell  |-> [j \in DOMAIN face_nodes |->
                            IF j <= n
                            THEN << Item(x, face_nodes[j]), Item(y, face_nodes[j]) >>
                            ELSE << Item(x, face_nodes[n - 1]),
                                    Item(y, face_nodes[n - 1]) >>]]

\* one pass of the loop of _build_polygon_shells: the shell of the face whose
\* closed row of nodes is face_nodes. The slice [0:max_n_nodes] of the row is
\* looked up in the coordinates, and the rest of the shell repeats its first
\* vertex.
PolygonShell(x, y, face_nodes, max_n_nodes) ==
    LET n == Min(max_n_nodes, Len(face_nodes))
    IN  IF \E j \in 1..n : ~InBounds(x, face_nodes[j])
        THEN [raised |-> IndexError, shell |-> None]
        ELSE [raised |-> "none",
              shell  |-> [j \in DOMAIN face_nodes |->
                            IF j <= n
                            THEN << Item(x, face_nodes[j]), Item(y, face_nodes[j]) >>
                            ELSE << Item(x, face_nodes[1]), Item(y, face_nodes[1]) >>]]

\* _build_polygon_shells: per face, the vertices (x, y) of its closed shell
BuildPolygonShells(node_x, node_y, face_nodes, n_face, n_max, n_nodes_per_face) ==
    LET closed_face_nodes      == CloseFaceNodes(face_nodes, n_face, n_max)
        nNodes_per_face_closed == [f \in 1..n_face |-> n_nodes_per_face[f] + 1]
        x      == NormalizeLongitude(node_x)
        passes == [f \in 1..n_face |->
                     PolygonShell(x, node_y, closed_face_nodes[f],
                                  nNodes_per_face_closed[f])]
    IN  IF \E f \in 1..n_face : passes[f].raised # "none"
        THEN [raised |-> IndexError, polygon_shells |-> None]
        ELSE [raised |-> "none",
              polygon_shells |-> [f \in 1..n_face |-> passes[f].shell]]

\* np.diff(shell[:, 0]): the longitude steps along a shell
LonDiff(shell) == [j \in 1..(Len(shell) - 1) |-> shell[j + 1][1] - shell[j][1]]

\* the test, had it been for more than half a turn
CrossesAntimeridianStrictly(shell) ==
    \E j \in DOMAIN LonDiff(shell) : Abs(LonDiff(shell)[j]) > 180

\* np.any(np.abs(np.diff(...)) >= 180)
CrossesAntimeridian(shell) ==
    \E j \in DOMAIN LonDiff(shell) : Abs(LonDiff(shell)[j]) >= 180

\* np.argwhere(mask) of a 1-D mask: the true positions, one row each
ArgWhere(mask) ==
    LET found == SelectSeq([f \in DOMAIN mask |-> f - 1], LAMBDA i : mask[i + 1])
    IN  NdArray(<< Len(found), 1 >>, found)

\* a[0] of an array of two dimensions
FirstRow(a) == NdArray(Tail(a.shape), SubSeq(a.flat, 1, a.shape[2]))

\* _build_antimeridian_face_indices, had it squeezed what argwhere found
\* whatever its number of rows
BuildAntimeridianFaceIndicesSqueezed(shells) ==
    Squeeze(ArgWhere([f \in DOMAIN shells |-> CrossesAntimeridian(shells[f])]))

\* _build_antimeridian_face_indices, of grid.polygon_shells
BuildAntimeridianFaceIndices(shells) ==
    LET found == ArgWhere([f \in DOMAIN shells |-> CrossesAntimeridian(shells[f])])
    IN  IF found.shape[1] = 1 THEN FirstRow(found) ELSE Squeeze(found)

\* One part of a polygon cut at the antimeridian: the odd parts lie east of
\* the seam and the even parts west of it; the vertices beyond the seam are
\* moved onto it.
Piece(shell, q) ==
    [j \in DOMAIN shell |->
        IF q % 2 = 1
        THEN << IF shell[j][1] < 0 THEN 180 ELSE shell[j][1], shell[j][2] >>
        ELSE << IF shell[j][1] >= 0 THEN -180 ELSE shell[j][1], shell[j][2] >>]

\* antimeridian.fix_polygon(Polygon(shell)): the polygon itself, or a
\* MultiPolygon of the parts it is cut into
FixPolygon(shell, parts) ==
    IF parts = 1 THEN [geom_type |-> "Polygon", geoms |-> << shell >>]
    ELSE [geom_type |-> "MultiPolygon", geoms |-> [q \in 1..parts |-> Piece(shell, q)]]

\* the numbers of parts the fix can cut the faces into: a polygon that does
\* not cross the seam stays one polygon
Splits(shells) ==
    { parts \in [DOMAIN shells -> 1..MaxParts] :
        \A f \in DOMAIN shells : ~CrossesAntimeridian(shells[f]) => parts[f] = 1 }

\* the loop, had it recorded a MultiPolygon's face once instead of once per part
RECURSIVE CorrectedLoopOncePerFace(_, _)
CorrectedLoopOncePerFace(corrected_polygons, i) ==
    IF i >= Len(corrected_polygons) THEN [shells |-> <<>>, map |-> <<>>]
    ELSE LET polygon == corrected_polygons[i + 1]
             rest    == CorrectedLoopOncePerFace(corrected_polygons, i + 1)
         IN  IF polygon.geom_type = "MultiPolygon"
             THEN [shells |-> polygon.geoms \o rest.shells,
                   map    |-> << i >> \o rest.map]
             ELSE [shells |-> << polygon.geoms[1] >> \o rest.shells,
                   map    |-> << i >> \o rest.map]

\* the loop, had it put what it appends in front of the lists
RECURSIVE CorrectedLoopPrepending(_, _)
CorrectedLoopPrepending(corrected_polygons, i) ==
    IF i >= Len(corrected_polygons) THEN [shells |-> <<>>, map |-> <<>>]
    ELSE LET polygon == corrected_polygons[i + 1]
             rest    == CorrectedLoopPrepending(corrected_polygons, i + 1)
         IN  IF polygon.geom_type = "MultiPolygon"
             THEN [shells |-> rest.shells \o polygon.geoms,
                   map    |-> rest.map \o [q \in DOMAIN polygon.geoms |-> i]]
             ELSE [shells |-> rest.shells \o << polygon.geoms[1] >>,
                   map    |-> rest.map \o << i >>]

\* the loop of _build_corrected_polygon_shells from polygon i on (i is the
\* 0-based face index)
RECURSIVE CorrectedLoop(_, _)
CorrectedLoop(corrected_polygons, i) ==
    IF i >= Len(corrected_polygons) THEN [shells |-> <<>>, map |-> <<>>]
    ELSE LET polygon == corrected_polygons[i + 1]
             rest    == CorrectedLoop(corrected_polygons, i + 1)
         IN  IF polygon.geom_type = "MultiPolygon"
             THEN [shells |-> polygon.geoms \o rest.shells,
                   map    |-> [q \in DOMAIN polygon.geoms |-> i] \o rest.map]
             ELSE [shells |-> << polygon.geoms[1] >> \o rest.shells,
                   map    |-> << i >> \o rest.map]

\* the faces (0-based) whose polygon _build_corrected_polygon_shells gives to
\* antimeridian.fix_polygon: every polygon of the list, in face order
FixedByCorrectedShells(shells) == [f \in DOMAIN shells |-> f - 1]

\* _build_corrected_polygon_shells(polygon_shells), with the fix cutting
\* face f into parts[f] parts
BuildCorrectedPolygonShells(shells, parts) ==
    CorrectedLoop([f \in DOMAIN shells |-> FixPolygon(shells[f], parts[f])], 0)

(***************************************************************************)
(* The meshes whose geometry is built.                                     *)
(***************************************************************************)
\* the node longitudes, in degrees east: 181 is -179 once normalised
Longitudes == {1, 179, 180, 181}

\* the node latitudes: every node on a latitude of its own
NodeLatitude(i) == 20 * i - 50

\* the row of a face of k nodes, the first of them node number first, in a
\* table n_max wide: its nodes in connectivity order, then the padding
FaceRow(first, k, n_node, n_max) ==
    [j \in 1..n_max |-> IF j <= k THEN (first + j - 1) % n_node ELSE INT_FILL_VALUE]

\* how many of a row's entries are nodes
NodesOfRow(row) == Cardinality({ j \in DOMAIN row : row[j] # INT_FILL_VALUE })

MakeMesh(node_x, face_nodes) ==
    [Mesh2_node_x         |-> node_x,
     Mesh2_node_y         |-> [i \in DOMAIN node_x |-> NodeLatitude(i)],
     Mesh2_face_nodes     |-> face_nodes,
     nMesh2_face          |-> Len(face_nodes),
     nMaxMesh2_face_nodes |-> Len(face_nodes[1]),
     nNodes_per_face      |-> [f \in DOMAIN face_nodes |-> NodesOfRow(face_nodes[f])]]

\* _build_polygon_shells of the mesh, as Grid.polygon_shells calls it
ShellsOf(m) ==
    BuildPolygonShells(m.Mesh2_node_x, m.Mesh2_node_y, m.Mesh2_face_nodes,
                       m.nMesh2_face, m.nMaxMesh2_face_nodes, m.nNodes_per_face)

\* a mesh of n_max nodes and one to MaxFaces faces of three to n_max nodes:
\* face number f starts at node f, and no face has fewer nodes than the one
\* before it
InitMesh(longitudes) ==
    \E n_max \in 3..MaxFaceNodes, n_face \in 1..MaxFaces :
       \E node_x \in [1..n_max -> longitudes], k \in [1..n_face -> 3..n_max] :
          /\ \A f \in 1..(n_face - 1) : k[f] <= k[f + 1]
          /\ mesh = MakeMesh(node_x,
                             [f \in 1..n_face |-> FaceRow(f - 1, k[f], n_max, n_max)])

InitGeometry ==
    /\ InitMesh(Longitudes)
    /\ polygon_shells = None
    /\ antimeridian_face_indices = None
    /\ corrected_polygon_shells = None
    /\ original_to_corrected = None
    /\ polygons = None
    /\ NoDataArray
    /\ source_grid = None
    /\ destination_grid = None
    /\ source_data = None
    /\ remap_to = Unset
    /\ coord_type = Unset
    /\ pc = "idle"
    /\ entry = Unset
    /\ raised = "none"
    /\ tree_requests = <<>>
    /\ nearest_neighbor_indices = None
    /\ destination_data = None
    /\ uxda_remap = None
    /\ NoSession
    /\ fix_polygon_calls = <<>>
    /\ NoPlot

\* Grid.polygon_shells is read for the first time
GetPolygonShells ==
    /\ polygon_shells = None
    /\ \E built \in { ShellsOf(mesh) } :
          /\ raised' = built.raised
          /\ polygon_shells' = built.polygon_shells
    /\ UNCHANGED <<mesh, antimeridian_face_indices, corrected_polygon_shells,
                   original_to_corrected, polygons>>
    /\ UNCHANGED remap_call
    /\ UNCHANGED dataarray_vars
    /\ UNCHANGED session_vars
    /\ UNCHANGED fix_polygon_calls
    /\ UNCHANGED plot_vars

\* Grid.antimeridian_face_indices is read for the first time
GetAntimeridianFaceIndices ==
    /\ polygon_shells # None
    /\ antimeridian_face_indices = None
    /\ antimeridian_face_indices' = BuildAntimeridianFaceIndices(polygon_shells)
    /\ UNCHANGED <<mesh, polygon_shells, corrected_polygon_shells,
                   original_to_corrected, polygons>>
    /\ UNCHANGED remap_vars
    /\ UNCHANGED dataarray_vars
    /\ UNCHANGED session_vars
    /\ UNCHANGED fix_polygon_calls
    /\ UNCHANGED plot_vars

\* Grid.corrected_polygon_shells is read for the first time
GetCorrectedPolygonShells ==
    /\ polygon_shells # None
    /\ corrected_polygon_shells = None
    /\ \E parts \in Splits(polygon_shells) :
         \E built \in { BuildCorrectedPolygonShells(polygon_shells, parts) } :
            /\ corrected_polygon_shells' = built.shells
            /\ original_to_corrected' = built.map
    /\ fix_polygon_calls' = FixedByCorrectedShells(polygon_shells)
    /\ UNCHANGED <<mesh, polygon_shells, antimeridian_face_indices, polygons>>
    /\ UNCHANGED remap_vars
    /\ UNCHANGED dataarray_vars
    /\ UNCHANGED session_vars
    /\ UNCHANGED plot_vars

NextGeometry ==
    GetPolygonShells \/ GetAntimeridianFaceIndices \/ GetCorrectedPolygonShells

SpecGeometry == InitGeometry /\ [][NextGeometry]_vars

(***************************************************************************)
(* What the claims about the geometry speak of.                            *)
(***************************************************************************)
\* the faces of the mesh, numbered from 1 as the rows of its tables are
Faces == 1..mesh.nMesh2_face

\* the node (a 0-based index) at the 0-based position j of face f
NodeOf(f, j) == mesh.Mesh2_face_nodes[f][j + 1]

\* the vertex at the 0-based position j of the shell of face f
Vertex(f, j) == polygon_shells[f][j + 1]

\* some node lies east of 180 degrees
SomeLongitudeAbove180 ==
    \E i \in DOMAIN mesh.Mesh2_node_x : mesh.Mesh2_node_x[i] > 180

\* the steps of longitude along the ring of face f: from each of its nodes to
\* the next, and from the last back to the first
RingSteps(f) ==
    { Abs(Vertex(f, j + 1)[1] - Vertex(f, j)[1]) : j \in 0..(mesh.nNodes_per_face[f] - 1) }

\* the longitudes of the shell of face f
ShellLongitudes(f) == { polygon_shells[f][j][1] : j \in DOMAIN polygon_shells[f] }

\* two consecutive vertices of the shell of face f lie at +179 and -179
Has179Pair(f) ==
    \E j \in 1..(Len(polygon_shells[f]) - 1) :
        { polygon_shells[f][j][1], polygon_shells[f][j + 1][1] } = {179, -179}

\* the 0-based face indices in antimeridian_face_indices
FlaggedFaces == Range(antimeridian_face_indices.flat)

\* how often the 0-based face index i is in the index map
Entries(i) ==
    Cardinality({ p \in DOMAIN original_to_corrected : original_to_corrected[p] = i })

(***************************************************************************)
(* The polygon shells.                                                     *)
(***************************************************************************)
\* C6: every face has a shell; the shell is as long as the mesh's greatest
\* number of nodes of a face plus one, whatever the face's own number of
\* nodes, and its first and last vertex are the same.
ShellClosure ==
    polygon_shells # None =>
        /\ Len(polygon_shells) = mesh.nMesh2_face
        /\ \A f \in Faces :
              /\ Len(polygon_shells[f]) = mesh.nMaxMesh2_face_nodes + 1
              /\ polygon_shells[f][1] = polygon_shells[f][Len(polygon_shells[f])]

\* shells are built of a mesh with a face of three nodes and a face of more
ShellClosureWitness ==
    /\ polygon_shells # None
    /\ \E f, g \in Faces :
          /\ mesh.nNodes_per_face[f] = 3
          /\ mesh.nNodes_per_face[g] = mesh.nMaxMesh2_face_nodes
          /\ mesh.nNodes_per_face[g] > 3
          /\ Vertex(f, 0) # Vertex(f, 2)

\* C7: of a face of k nodes, vertex j of the shell is the position of the
\* face's j-th node for j < k, vertex k and every vertex after it is vertex 0,
\* and building the shells never looks up the fill value (which would raise
\* IndexError).
ShellFollowsNodes ==
    /\ raised # IndexError
    /\ polygon_shells # None =>
          \A f \in Faces :
              LET k == mesh.nNodes_per_face[f]
                  x == NormalizeLongitude(mesh.Mesh2_node_x)
              IN  /\ \A j \in 0..(k - 1) :
                        /\ NodeOf(f, j) # INT_FILL_VALUE
                        /\ Vertex(f, j) = << x[NodeOf(f, j) + 1],
                                             mesh.Mesh2_node_y[NodeOf(f, j) + 1] >>
                  /\ \A j \in k..mesh.nMaxMesh2_face_nodes :
                        Vertex(f, j) = Vertex(f, 0)

\* shells are built of a mesh with a face that is padded by at least one fill
\* value and whose nodes lie at different positions
ShellFollowsNodesWitness ==
    /\ polygon_shells # None
    /\ \E f \in Faces :
          /\ mesh.nNodes_per_face[f] < mesh.nMaxMesh2_face_nodes
          /\ mesh.Mesh2_face_nodes[f][mesh.nMaxMesh2_face_nodes] = INT_FILL_VALUE
          /\ Vertex(f, 1) # Vertex(f, 0)
          /\ Vertex(f, mesh.nMaxMesh2_face_nodes) = Vertex(f, 0)

\* the shells' longitudes are the normalised ones when some node lies east of
\* 180 degrees and the given ones otherwise; the latitudes are the given ones
ShellLongitudesNormalized ==
    polygon_shells # None =>
        \A f \in Faces : \A j \in 0..(mesh.nNodes_per_face[f] - 1) :
            LET given == mesh.Mesh2_node_x[NodeOf(f, j) + 1]
                lon   == Vertex(f, j)[1]
            IN  /\ SomeLongitudeAbove180 =>
                      /\ lon = ((given + 180) % 360) - 180
                      /\ lon \in (-180)..179
                      /\ (lon - given) % 360 = 0
                /\ ~SomeLongitudeAbove180 => lon = given
                /\ Vertex(f, j)[2] = mesh.Mesh2_node_y[NodeOf(f, j) + 1]

\* C8: if some node longitude is greater than 180, every shell longitude is
\* ((x + 180) mod 360) - 180 of its node's longitude x, so it lies in
\* [-180, 180) and is congruent to x modulo 360; otherwise the shell
\* longitudes are the node longitudes. The latitudes are the nodes'
\* latitudes, and the arrays of the caller are never changed.
LongitudeNormalization ==
    /\ []ShellLongitudesNormalized
    /\ [][mesh' = mesh]_vars

\* shells are built of a mesh with a node east of 180 degrees, whose
\* longitude the shells give normalised, and a node at a longitude that the
\* normalisation leaves alone
LongitudeNormalizationWitness ==
    /\ polygon_shells # None
    /\ \E f \in Faces : \E i, j \in 0..(mesh.nNodes_per_face[f] - 1) :
          /\ mesh.Mesh2_node_x[NodeOf(f, i) + 1] = 181
          /\ Vertex(f, i)[1] = -179
          /\ 180 \in Range(mesh.Mesh2_node_x)
          /\ mesh.Mesh2_node_x[NodeOf(f, j) + 1] = 179
          /\ Vertex(f, j)[1] = 179

\* shells are built of a mesh with a node at 180 degrees and none beyond
LongitudeUnchangedWitness ==
    /\ polygon_shells # None
    /\ ~SomeLongitudeAbove180
    /\ \E f \in Faces : 180 \in ShellLongitudes(f)

(***************************************************************************)
(* The faces on the antimeridian.                                          *)
(***************************************************************************)
\* C9: the face indices returned are exactly those of the faces whose ring
\* has a step of longitude of 180 degrees or more between consecutive
\* vertices (the repeats of the first vertex that pad a shell add no face);
\* a face with adjacent vertices at +179 and -179 is returned, and a face
\* whose vertices lie within 10 degrees of longitude is not.
AntimeridianFacesExact ==
    antimeridian_face_indices # None =>
        /\ FlaggedFaces = { f - 1 : f \in { g \in Faces : \E d \in RingSteps(g) : d >= 180 } }
        /\ \A f \in Faces :
              /\ Has179Pair(f) => f - 1 \in FlaggedFaces
              /\ MaxOf(ShellLongitudes(f)) - MinOf(ShellLongitudes(f)) <= 10
                    => f - 1 \notin FlaggedFaces

\* the indices are built of a mesh with a face that has adjacent vertices at
\* +179 and -179, and a padded face of different longitudes within 10 degrees
AntimeridianFacesWitness ==
    /\ antimeridian_face_indices # None
    /\ \E f, g \in Faces :
          /\ Has179Pair(f)
          /\ f - 1 \in FlaggedFaces
          /\ mesh.nNodes_per_face[g] < mesh.nMaxMesh2_face_nodes
          /\ Cardinality(ShellLongitudes(g)) > 1
          /\ MaxOf(ShellLongitudes(g)) - MinOf(ShellLongitudes(g)) <= 10
          /\ g - 1 \notin FlaggedFaces

\* the indices are built of a mesh with a face that has a step of exactly
\* 180 degrees and no greater one
AntimeridianHalfTurnWitness ==
    /\ antimeridian_face_indices # None
    /\ \E f \in Faces :
          /\ 180 \in RingSteps(f)
          /\ \A d \in RingSteps(f) : d <= 180
          /\ f - 1 \in FlaggedFaces

(***************************************************************************)
(* The corrected shells and their index map.                               *)
(***************************************************************************)
\* C10: the index map is as long as the list of corrected parts, every face
\* index 0..n_face-1 is in it at least once, and the index of every face
\* that does not cross the antimeridian is in it exactly once.
IndexMapComplete ==
    corrected_polygon_shells # None =>
        /\ Len(original_to_corrected) = Len(corrected_polygon_shells)
        /\ \A f \in Faces :
              /\ Entries(f - 1) >= 1
              /\ ~CrossesAntimeridian(polygon_shells[f]) => Entries(f - 1) = 1

\* the corrected shells are built of a mesh with a face that is cut in parts
\* and a face that does not cross the antimeridian
IndexMapCompleteWitness ==
    /\ corrected_polygon_shells # None
    /\ \E f, g \in Faces :
          /\ CrossesAntimeridian(polygon_shells[f])
          /\ Entries(f - 1) > 1
          /\ ~CrossesAntimeridian(polygon_shells[g])
          /\ Entries(g - 1) = 1

(***************************************************************************)
(* grid_to_polygons.                                                       *)
(***************************************************************************)
\* shapely.polygons(polygon_shells): one Polygon per shell
Polygons(shells) ==
    [f \in DOMAIN shells |-> [geom_type |-> "Polygon", geoms |-> << shells[f] >>]]

\* the loop, had it gone through the indices from the first on while it takes
\* the corrected polygons from the last on
RECURSIVE InsertCorrectedForward(_, _, _)
InsertCorrectedForward(all, indices, corrected_polygons) ==
    IF indices = <<>> THEN all
    ELSE InsertCorrectedForward(
            [all EXCEPT ![Head(indices) + 1] = Last(corrected_polygons)],
            Tail(indices), Front(corrected_polygons))

\* for i in reversed(indices): polygons[i] = corrected_polygons.pop()
RECURSIVE InsertCorrected(_, _, _)
InsertCorrected(all, indices, corrected_polygons) ==
    IF indices = <<>> THEN all
    ELSE InsertCorrected(
            [all EXCEPT ![Last(indices) + 1] = Last(corrected_polygons)],
            Front(indices), Front(corrected_polygons))

\* grid_to_polygons of a grid with these polygon_shells and
\* antimeridian_face_indices, the fix cutting face f into parts[f] parts
GridToPolygonsOf(shells, indices, parts) ==
    LET all == Polygons(shells)
    IN  IF indices = None THEN all
        ELSE LET antimeridian_polygons ==
                     [p \in DOMAIN indices.flat |-> all[indices.flat[p] + 1]]
                 corrected_polygons ==
                     [p \in DOMAIN indices.flat |->
                         FixPolygon(antimeridian_polygons[p].geoms[1],
                                    parts[indices.flat[p] + 1])]
             IN  InsertCorrected(all, indices.flat, corrected_polygons)

\* the faces (0-based) whose polygon grid_to_polygons gives to
\* antimeridian.fix_polygon: those of antimeridian_face_indices
FixedByGridToPolygons(indices) == IF indices = None THEN <<>> ELSE indices.flat

\* grid_to_polygons(grid): the grid builds the polygon shells and the
\* antimeridian face indices it has not built yet
GridToPolygons ==
    /\ polygons = None
    /\ \E built \in { IF polygon_shells = None THEN ShellsOf(mesh)
                      ELSE [raised |-> "none", polygon_shells |-> polygon_shells] } :
          IF built.raised # "none"
          THEN /\ raised' = built.raised
               /\ UNCHANGED <<polygon_shells, antimeridian_face_indices, polygons,
                              fix_polygon_calls>>
          ELSE /\ raised' = "none"
               /\ polygon_shells' = built.polygon_shells
               /\ antimeridian_face_indices' =
                     IF antimeridian_face_indices = None
                     THEN BuildAntimeridianFaceIndices(built.polygon_shells)
                     ELSE antimeridian_face_indices
               /\ \E parts \in Splits(built.polygon_shells) :
                     polygons' = GridToPolygonsOf(built.polygon_shells,
                                                  antimeridian_face_indices', parts)
               /\ fix_polygon_calls' = FixedByGridToPolygons(antimeridian_face_indices')
    /\ UNCHANGED <<mesh, corrected_polygon_shells, original_to_corrected>>
    /\ UNCHANGED remap_call
    /\ UNCHANGED dataarray_vars
    /\ UNCHANGED session_vars
    /\ UNCHANGED plot_vars

NextPolygons ==
    GetPolygonShells \/ GetAntimeridianFaceIndices \/ GridToPolygons

SpecPolygons == InitGeometry /\ [][NextPolygons]_vars

\* the polygons the fix can make of the shell of face f
FixesOf(f) == { FixPolygon(polygon_shells[f], n) : n \in 1..MaxParts }

\* C12: grid_to_polygons returns one geometry per face, in face order: at the
\* place of a face in antimeridian_face_indices the fix of that face's own
\* polygon, at the place of any other face the polygon of that face's shell.
PolygonsInPlace ==
    polygons # None =>
        /\ Len(polygons) = mesh.nMesh2_face
        /\ \A f \in Faces :
              IF f - 1 \in FlaggedFaces
              THEN polygons[f] \in FixesOf(f)
              ELSE polygons[f] = [geom_type |-> "Polygon", geoms |-> << polygon_shells[f] >>]

\* polygons are made of a mesh with two faces on the antimeridian, both cut,
\* whose fixes differ
PolygonsInPlaceWitness ==
    /\ polygons # None
    /\ \E f, g \in Faces :
          /\ f # g
          /\ f - 1 \in FlaggedFaces
          /\ g - 1 \in FlaggedFaces
          /\ polygons[f].geom_type = "MultiPolygon"
          /\ polygons[g].geom_type = "MultiPolygon"
          /\ polygons[f] \notin FixesOf(g)

\* polygons are made of a mesh with a face on the antimeridian and one off it
PolygonsMixedWitness ==
    /\ polygons # None
    /\ \E f, g \in Faces :
          /\ f - 1 \in FlaggedFaces
          /\ polygons[f].geom_type = "MultiPolygon"
          /\ g - 1 \notin FlaggedFaces

\* the first position of the 0-based face index i in the index map
FirstEntry(i) ==
    MinOf({ p \in DOMAIN original_to_corrected : original_to_corrected[p] = i })

\* C11: the index map never decreases, so the parts come in face order and
\* the parts of one face are next to each other; part p is the part of the
\* fix of face map[p] that the fix gave at that place among the face's parts.
IndexMapInFaceOrder ==
    corrected_polygon_shells # None =>
        /\ \A p \in 1..(Len(original_to_corrected) - 1) :
              original_to_corrected[p] <= original_to_corrected[p + 1]
        /\ \A p \in DOMAIN original_to_corrected :
              LET i == original_to_corrected[p]
              IN  /\ i + 1 \in Faces
                  /\ corrected_polygon_shells[p] =
                        FixPolygon(polygon_shells[i + 1], Entries(i)).geoms[p - FirstEntry(i) + 1]

\* the corrected shells are built of a mesh whose first face is cut in parts
\* that differ and whose second face is not cut
IndexMapInFaceOrderWitness ==
    /\ corrected_polygon_shells # None
    /\ Len(polygon_shells) >= 2
    /\ Entries(0) = 2
    /\ Entries(1) = 1
    /\ corrected_polygon_shells[1] # corrected_polygon_shells[2]
    /\ corrected_polygon_shells[3] = polygon_shells[2]

(***************************************************************************)
(* UxDataArray (uxarray/core/dataarray.py): a field on the mesh.           *)
(***************************************************************************)
\* Grid.n_node, Grid.n_face and Grid.n_edge of the mesh
NNode(m) == Len(m.Mesh2_node_x)
NFace(m) == m.nMesh2_face
NEdge(m) == NNode(m) + NFace(m) - 1

\* the length of the dimension called dim of a field on mesh m
DimSize(m, dim, n_time) ==
    CASE dim = "n_node" -> NNode(m)
      [] dim = "n_edge" -> NEdge(m)
      [] dim = "n_face" -> NFace(m)
      [] OTHER          -> n_time

\* the dims of the fields: none (a field reduced to one value), one of the
\* mesh's, one of another name, or one of another name before one of the mesh's
DimChoices ==
    { <<>>, << "n_face" >>, << "n_node" >>, << "n_edge" >>, << "time" >>,
      << "time", "n_face" >>, << "time", "n_node" >> }

\* a UxDataArray of these dims on mesh m
UxDataArray(m, dims, n_time) ==
    [dims   |-> dims,
     values |-> Arange([d \in DOMAIN dims |-> DimSize(m, dims[d], n_time)])]

\* the fields on mesh m
Fields(m) == { UxDataArray(m, dims, n_time) : dims \in DimChoices, n_time \in 1..MaxLead }

\* ndarray.size
Size(a) == Prod(a.shape)

\* _face_centered, _node_centered, _edge_centered
FaceCentered(da) == \E d \in DOMAIN da.dims : da.dims[d] = "n_face"
NodeCentered(da) == \E d \in DOMAIN da.dims : da.dims[d] = "n_node"
EdgeCentered(da) == \E d \in DOMAIN da.dims : da.dims[d] = "n_edge"

\* np.delete(a, indices, axis=0) of an array a of one dimension
Delete(a, indices) ==
    LET kept == SelectSeq([p \in DOMAIN a.flat |-> p],
                          LAMBDA p : p - 1 \notin Range(indices.flat))
    IN  NdArray(<< Len(kept) >>, [q \in DOMAIN kept |-> a.flat[kept[q]]])

\* the positions (0-based) of a sequence
Positions(s) == [p \in DOMAIN s |-> p - 1]

\* the 0-based face indices that are not in indices, in order
Complement(n_face, indices) ==
    SelectSeq([f \in 1..n_face |-> f - 1], LAMBDA i : i \notin Range(indices.flat))

\* Grid.to_geodataframe(exclude_antimeridian): the geometry column. Without
\* the exclusion one geometry per face, as grid_to_polygons gives them; with
\* it the polygons of the faces that are not in antimeridian_face_indices
GridToGeodataframe(shells, indices, parts, exclude_antimeridian) ==
    IF exclude_antimeridian
    THEN LET kept == Complement(Len(shells), indices)
         IN  [geometry |-> [r \in DOMAIN kept |-> Polygons(shells)[kept[r] + 1]]]
    ELSE [geometry |-> GridToPolygonsOf(shells, indices, parts)]

NotOneDimensional == "ValueError: Data Variable must be 1-dimensional"
SizeMatchesNodes  == "ValueError: size does not match the number of faces. Current size matches the number of nodes."
SizeMismatch      == "ValueError: size does not match the number of faces"
AxisError         == "AxisError"
LengthMismatch    == "ValueError: Length of values does not match length of index"

\* to_geodataframe, had it deleted the flagged faces' values whether or not
\* the exclusion was asked for
ToGeodataframeAlwaysDeleting(da, m, exclude_antimeridian, grid_gdf, indices) ==
    IF Ndim(da.values) > 1
    THEN [raised |-> NotOneDimensional, grid_calls |-> <<>>, gdf |-> None]
    ELSE IF Size(da.values) = NFace(m)
    THEN IF Ndim(da.values) = 0
         THEN [raised |-> AxisError, grid_calls |-> << "to_geodataframe" >>, gdf |-> None]
         ELSE [raised     |-> "none",
               grid_calls |-> << "to_geodataframe", "antimeridian_face_indices" >>,
               gdf        |-> [geometry |-> grid_gdf.geometry,
                               var      |-> Delete(da.values, indices).flat]]
    ELSE IF Size(da.values) = NNode(m)
    THEN [raised |-> SizeMatchesNodes, grid_calls |-> <<>>, gdf |-> None]
    ELSE [raised |-> SizeMismatch, grid_calls |-> <<>>, gdf |-> None]

\* UxDataArray.to_geodataframe(exclude_antimeridian=...) of the field da on
\* mesh m: what it raised, what it called on the grid and the table it
\* returned. grid_gdf is what uxgrid.to_geodataframe returns and indices is
\* uxgrid.antimeridian_face_indices. Assigning a column of another length
\* than the table's is an error of the table; one value fills the column.
ToGeodataframe(da, m, exclude_antimeridian, grid_gdf, indices) ==
    IF Ndim(da.values) > 1
    THEN [raised |-> NotOneDimensional, grid_calls |-> <<>>, gdf |-> None]
    ELSE IF Size(da.values) = NFace(m)
    THEN IF exclude_antimeridian
         THEN IF Ndim(da.values) = 0
              THEN [raised     |-> AxisError,
                    grid_calls |-> << "to_geodataframe", "antimeridian_face_indices" >>,
                    gdf        |-> None]
              ELSE LET data == Delete(da.values, indices).flat
                   IN  IF Len(data) # Len(grid_gdf.geometry)
                       THEN [raised     |-> LengthMismatch,
                             grid_calls |-> << "to_geodataframe", "antimeridian_face_indices" >>,
                             gdf        |-> None]
                       ELSE [raised     |-> "none",
                             grid_calls |-> << "to_geodataframe", "antimeridian_face_indices" >>,
                             gdf        |-> [geometry |-> grid_gdf.geometry, var |-> data]]
         ELSE LET data == IF Ndim(da.values) = 0
                          THEN [r \in DOMAIN grid_gdf.geometry |-> da.values.flat[1]]
                          ELSE da.values.flat
              IN  IF Len(data) # Len(grid_gdf.geometry)
                  THEN [raised     |-> LengthMismatch,
                        grid_calls |-> << "to_geodataframe" >>,
                        gdf        |-> None]
                  ELSE [raised     |-> "none",
                        grid_calls |-> << "to_geodataframe" >>,
                        gdf        |-> [geometry |-> grid_gdf.geometry, var |-> data]]
    ELSE IF Size(da.values) = NNode(m)
    THEN [raised |-> SizeMatchesNodes, grid_calls |-> <<>>, gdf |-> None]
    ELSE [raised |-> SizeMismatch, grid_calls |-> <<>>, gdf |-> None]

\* the values of periodic_elements: the three policies and another word
PeriodicElements == {"include", "exclude", "split", "wrap"}

InvalidPeriodicElements == "ValueError: Invalid periodic_elements"
NotFaceCentered         == "ValueError: Data variable must be face centered."

\* Grid.to_polycollection(periodic_elements, return_indices=True): the rings
\* of the collection and, per ring, the index of the face it comes from.
\* "exclude" drops the faces in antimeridian_face_indices, "include" keeps
\* every face's shell as it is, "split" takes the corrected shells.
GridToPolycollection(shells, indices, parts, periodic_elements) ==
    CASE periodic_elements = "split" ->
            LET built == BuildCorrectedPolygonShells(shells, parts)
            IN  [raised |-> "none", rings |-> built.shells,
                 corrected_to_original_faces |-> built.map]
      [] periodic_elements = "exclude" ->
            LET kept == Complement(Len(shells), indices)
            IN  [raised |-> "none", rings |-> [r \in DOMAIN kept |-> shells[kept[r] + 1]],
                 corrected_to_original_faces |-> kept]
      [] periodic_elements = "include" ->
            [raised |-> "none", rings |-> shells,
             corrected_to_original_faces |-> Positions(shells)]
      [] OTHER ->
            [raised |-> InvalidPeriodicElements, rings |-> <<>>,
             corrected_to_original_faces |-> <<>>]

\* self.values[corrected_to_original_faces] of values of one dimension
Take(values, map) == [p \in DOMAIN map |-> values.flat[map[p] + 1]]

\* to_polycollection, had it asked the grid for the collection before looking
\* at the field's dimensions
ToPolycollectionGridFirst(da, periodic_elements, return_indices, from_grid) ==
    IF Ndim(da.values) > 1
    THEN [raised |-> NotOneDimensional, grid_calls |-> <<>>, poly_collection |-> None]
    ELSE IF from_grid.raised # "none"
    THEN [raised |-> from_grid.raised, grid_calls |-> << "to_polycollection" >>,
          poly_collection |-> None]
    ELSE IF FaceCentered(da)
    THEN LET map  == from_grid.corrected_to_original_faces
             data == IF Len(map) > 0 THEN Take(da.values, map) ELSE da.values.flat
         IN  [raised     |-> "none",
              grid_calls |-> << "to_polycollection" >>,
              poly_collection |->
                  [rings |-> from_grid.rings,
                   array |-> data,
                   corrected_to_original_faces |-> map,
                   return_indices |-> return_indices]]
    ELSE [raised |-> NotFaceCentered, grid_calls |-> << "to_polycollection" >>,
          poly_collection |-> None]

\* UxDataArray.to_polycollection(periodic_elements, return_indices) of the
\* field da: what it raised, what it called on the grid, and the collection
\* with the array set on it. from_grid is what uxgrid.to_polycollection
\* returns.
ToPolycollection(da, periodic_elements, return_indices, from_grid) ==
    IF Ndim(da.values) > 1
    THEN [raised |-> NotOneDimensional, grid_calls |-> <<>>, poly_collection |-> None]
    ELSE IF FaceCentered(da)
    THEN IF from_grid.raised # "none"
         THEN [raised |-> from_grid.raised, grid_calls |-> << "to_polycollection" >>,
               poly_collection |-> None]
         ELSE LET map  == from_grid.corrected_to_original_faces
                  data == IF Len(map) > 0 THEN Take(da.values, map) ELSE da.values.flat
              IN  [raised     |-> "none",
                   grid_calls |-> << "to_polycollection" >>,
                   poly_collection |->
                       [rings |-> from_grid.rings,
                        array |-> data,
                        corrected_to_original_faces |-> map,
                        return_indices |-> return_indices]]
    ELSE [raised |-> NotFaceCentered, grid_calls |-> <<>>, poly_collection |-> None]

(***************************************************************************)
(* One geometry export of a field.                                         *)
(***************************************************************************)
\* the node longitudes of the meshes whose geometry is exported: a face with
\* nodes at both is on the antimeridian
ExportLongitudes == {179, 181}

InitExport ==
    /\ InitMesh(ExportLongitudes)
    /\ uxda \in Fields(mesh)
    /\ arguments = None
    /\ grid_calls = <<>>
    /\ gdf = None
    /\ poly_collection = None
    /\ uxda_out = None
    /\ warned = <<>>
    /\ polygon_shells = None
    /\ antimeridian_face_indices = None
    /\ corrected_polygon_shells = None
    /\ original_to_corrected = None
    /\ polygons = None
    /\ source_grid = None
    /\ destination_grid = None
    /\ source_data = None
    /\ remap_to = Unset
    /\ coord_type = Unset
    /\ pc = "idle"
    /\ entry = Unset
    /\ raised = "none"
    /\ tree_requests = <<>>
    /\ nearest_neighbor_indices = None
    /\ destination_data = None
    /\ uxda_remap = None
    /\ NoSession
    /\ fix_polygon_calls = <<>>
    /\ NoPlot

\* what the grid has cached of its geometry after a call that made
\* grid_calls on it: the shells and the antimeridian face indices are built
\* by the first call that needs them
GridBuilds(called, shells) ==
    /\ polygon_shells' = IF called # <<>> THEN shells ELSE polygon_shells
    /\ antimeridian_face_indices' =
          IF called # <<>> THEN BuildAntimeridianFaceIndices(shells)
          ELSE antimeridian_face_indices

\* uxda.to_geodataframe(exclude_antimeridian=...)
CallToGeodataframe ==
    /\ arguments = None
    /\ \E exclude_antimeridian \in BOOLEAN :
       \E shells \in { ShellsOf(mesh).polygon_shells } :
       \E parts \in Splits(shells) :
       \E indices \in { BuildAntimeridianFaceIndices(shells) } :
       \E r \in { ToGeodataframe(uxda, mesh, exclude_antimeridian,
                                 GridToGeodataframe(shells, indices, parts,
                                                    exclude_antimeridian),
                                 indices) } :
          /\ arguments' = [method |-> "to_geodataframe",
                           exclude_antimeridian |-> exclude_antimeridian]
          /\ raised' = r.raised
          /\ grid_calls' = r.grid_calls
          /\ gdf' = r.gdf
          /\ GridBuilds(r.grid_calls, shells)
    /\ UNCHANGED <<mesh, corrected_polygon_shells, original_to_corrected, polygons>>
    /\ UNCHANGED <<uxda, poly_collection, uxda_out, warned>>
    /\ UNCHANGED remap_call
    /\ UNCHANGED session_vars
    /\ UNCHANGED fix_polygon_calls
    /\ UNCHANGED plot_vars

\* uxda.to_polycollection(periodic_elements=..., return_indices=...)
CallToPolycollection ==
    /\ arguments = None
    /\ \E periodic_elements \in PeriodicElements, return_indices \in BOOLEAN :
       \E shells \in { ShellsOf(mesh).polygon_shells } :
       \E parts \in Splits(shells) :
       \E indices \in { BuildAntimeridianFaceIndices(shells) } :
       \E r \in { ToPolycollection(uxda, periodic_elements, return_indices,
                                   GridToPolycollection(shells, indices, parts,
                                                        periodic_elements)) } :
          /\ arguments' = [method |-> "to_polycollection",
                           periodic_elements |-> periodic_elements,
                           return_indices |-> return_indices]
          /\ raised' = r.raised
          /\ grid_calls' = r.grid_calls
          /\ poly_collection' = r.poly_collection
          /\ GridBuilds(IF r.raised = "none" THEN r.grid_calls ELSE <<>>, shells)
    /\ UNCHANGED <<mesh, corrected_polygon_shells, original_to_corrected, polygons>>
    /\ UNCHANGED <<uxda, gdf, uxda_out, warned>>
    /\ UNCHANGED remap_call
    /\ UNCHANGED session_vars
    /\ UNCHANGED fix_polygon_calls
    /\ UNCHANGED plot_vars

NextExport == CallToGeodataframe \/ CallToPolycollection

SpecExport == InitExport /\ [][NextExport]_vars

(***************************************************************************)
(* The geometry exports.                                                   *)
(***************************************************************************)
\* to_geodataframe was called
CalledToGeodataframe == arguments # None /\ arguments.method = "to_geodataframe"

\* the errors that tell a mismatch of the field's shape
ShapeMismatchErrors == {NotOneDimensional, SizeMatchesNodes, SizeMismatch}

\* the 0-based indices of the faces off the antimeridian, in order
FacesOffAntimeridian ==
    SelectSeq([f \in 1..NFace(mesh) |-> f - 1], LAMBDA i : i \notin FlaggedFaces)

\* C13: to_geodataframe succeeds only for a field of one dimension whose
\* size is n_face; every other field is rejected with a shape-mismatch
\* error, a field whose size is n_node and not n_face with the message that
\* says so and a field of any other size with the generic one.
GeodataframeOnlyOfFaceSized ==
    CalledToGeodataframe =>
        LET one_dimensional == Ndim(uxda.values) = 1
            size            == Size(uxda.values)
        IN  /\ raised = "none" => one_dimensional /\ size = NFace(mesh)
            /\ ~(one_dimensional /\ size = NFace(mesh)) => raised \in ShapeMismatchErrors
            /\ one_dimensional /\ size # NFace(mesh) =>
                  raised = IF size = NNode(mesh) THEN SizeMatchesNodes ELSE SizeMismatch
            /\ SizeMatchesNodes # SizeMismatch

\* the same of the fields that have a dimension
GeodataframeOnlyOfFaceSizedArrays ==
    CalledToGeodataframe /\ Ndim(uxda.values) >= 1 =>
        LET one_dimensional == Ndim(uxda.values) = 1
            size            == Size(uxda.values)
        IN  /\ raised = "none" => one_dimensional /\ size = NFace(mesh)
            /\ ~(one_dimensional /\ size = NFace(mesh)) => raised \in ShapeMismatchErrors
            /\ one_dimensional /\ size # NFace(mesh) =>
                  raised = IF size = NNode(mesh) THEN SizeMatchesNodes ELSE SizeMismatch

\* C14: with exclude_antimeridian the table has n_face minus the number of
\* flagged faces rows, and row r holds the polygon and the value of the r-th
\* face off the antimeridian; without it the data column is the whole field,
\* one value per face.
GeodataframeRowsAligned ==
    CalledToGeodataframe /\ gdf # None =>
        IF arguments.exclude_antimeridian
        THEN /\ Len(gdf.geometry) = NFace(mesh) - Cardinality(FlaggedFaces)
             /\ Len(gdf.var) = Len(gdf.geometry)
             /\ \A r \in DOMAIN gdf.var :
                   LET i == FacesOffAntimeridian[r]
                   IN  /\ gdf.var[r] = uxda.values.flat[i + 1]
                       /\ gdf.geometry[r] = Polygons(polygon_shells)[i + 1]
        ELSE /\ Len(gdf.geometry) = NFace(mesh)
             /\ Len(gdf.var) = NFace(mesh)
             /\ \A f \in Faces : gdf.var[f] = uxda.values.flat[f]

\* a table is made without the first face, which is on the antimeridian, and
\* with the second, which is off it
GeodataframeRowsAlignedWitness ==
    /\ CalledToGeodataframe
    /\ gdf # None
    /\ arguments.exclude_antimeridian
    /\ NFace(mesh) >= 2
    /\ 0 \in FlaggedFaces
    /\ 1 \notin FlaggedFaces
    /\ gdf.var[1] = uxda.values.flat[2]

\* a table is made of all faces of a mesh with a face on the antimeridian
GeodataframeWholeWitness ==
    /\ CalledToGeodataframe
    /\ gdf # None
    /\ ~arguments.exclude_antimeridian
    /\ FlaggedFaces # {}
    /\ NFace(mesh) >= 2

\* to_polycollection returned a collection
MadePolycollection ==
    arguments # None /\ arguments.method = "to_polycollection" /\ poly_collection # None

\* C15: whatever the policy, the array set on the collection has one value
\* per ring, and the value of ring j is the field's value at the face the
\* index map gives for ring j.
PolycollectionArrayPerRing ==
    MadePolycollection =>
        /\ Len(poly_collection.array) = Len(poly_collection.rings)
        /\ Len(poly_collection.corrected_to_original_faces) = Len(poly_collection.rings)
        /\ \A j \in DOMAIN poly_collection.rings :
              poly_collection.array[j] =
                 uxda.values.flat[poly_collection.corrected_to_original_faces[j] + 1]

\* the same of the collections that have a ring
PolycollectionArrayPerRingOfSome ==
    MadePolycollection /\ poly_collection.rings # <<>> =>
        /\ Len(poly_collection.array) = Len(poly_collection.rings)
        /\ Len(poly_collection.corrected_to_original_faces) = Len(poly_collection.rings)
        /\ \A j \in DOMAIN poly_collection.rings :
              poly_collection.array[j] =
                 uxda.values.flat[poly_collection.corrected_to_original_faces[j] + 1]

(***************************************************************************)
(* UxDataArray.difference and UxDataArray.gradient.                        *)
(***************************************************************************)
\* Grid.edge_face_connectivity: the two faces of an edge, or one face and the
\* fill value on an edge at the rim of the mesh
EdgeFaceConnectivity(m) ==
    [e \in 1..NEdge(m) |->
        IF e < NFace(m) THEN << e - 1, e >>
        ELSE << (e - 1) % NFace(m), INT_FILL_VALUE >>]

\* Grid.edge_node_connectivity: the two nodes of an edge
EdgeNodeConnectivity(m) ==
    [e \in 1..NEdge(m) |-> << (e - 1) % NNode(m), e % NNode(m) >>]

\* Grid.edge_face_distances: the distance between the centres of the faces
\* of an edge, in half units
EdgeFaceDistances(m) == [e \in 1..NEdge(m) |-> 1 + (e % 2)]

\* the array whose trailing dimension is n_edge and whose value at edge e,
\* under every leading index, is the difference of d_var at the two elements
\* pairs[e] names, as it is or without its sign; 0 where there is one element
OverEdges(d_var, n_edge, pairs, magnitude) ==
    LET n    == Last(d_var.shape)
        lead == Prod(Front(d_var.shape))
    IN  NdArray(Front(d_var.shape) \o << n_edge >>,
                [p \in 1..(lead * n_edge) |->
                    LET at == ((p - 1) \div n_edge) * n
                        e  == ((p - 1) % n_edge) + 1
                        d  == IF pairs[e][2] = INT_FILL_VALUE THEN 0
                              ELSE d_var.flat[at + pairs[e][1] + 1]
                                       - d_var.flat[at + pairs[e][2] + 1]
                    IN  IF magnitude THEN Abs(d) ELSE d])

\* _calculate_edge_face_difference: |d_var[face 0] - d_var[face 1]| on the
\* edges between two faces, 0 on the others
EdgeFaceDifference(d_var, edge_faces, n_edge) ==
    OverEdges(d_var, n_edge, edge_faces, TRUE)

\* _calculate_edge_node_difference: |d_var[node 0] - d_var[node 1]|
EdgeNodeDifference(d_var, edge_nodes) ==
    OverEdges(d_var, Len(edge_nodes), edge_nodes, TRUE)

\* _calculate_grad_on_edge_from_faces: the difference over the distance, in
\* half units so that it is whole
GradOnEdgeFromFaces(d_var, edge_faces, edge_face_distances, n_edge) ==
    LET diff == EdgeFaceDifference(d_var, edge_faces, n_edge)
    IN  NdArray(diff.shape,
                [p \in DOMAIN diff.flat |->
                    (2 * diff.flat[p]) \div edge_face_distances[((p - 1) % n_edge) + 1]])

\* dims, with the last one replaced
WithLastDim(dims, dim) == Front(dims) \o << dim >>

Destinations == {"node", "edge", "face", "cell"}

InvalidDestination   == "ValueError: Invalid destination"
FaceToFace           == "ValueError: Invalid destination 'face' for a face-centered data variable"
FaceToNode           == "ValueError: face-centered to node not yet supported"
NodeToNode           == "ValueError: Invalid destination 'node' for a node-centered data variable"
NodeToFace           == "ValueError: node-centered to face not yet supported"
EdgeNotImplemented   == "NotImplementedError: Difference for edge centered data variables not yet implemented"
NoCentering          == "ValueError: TODO: "
UnboundLocalError    == "UnboundLocalError"
GradientNotFaceCentered == "ValueError: Gradient computations are currently only supported for face-centered data variables"

\* the class of an error
KindOf(error) ==
    CASE error = EdgeNotImplemented -> "NotImplementedError"
      [] error = UnboundLocalError  -> "UnboundLocalError"
      [] error = "none"             -> "none"
      [] OTHER                      -> "ValueError"

\* no result, but this error
Raises(error) == [raised |-> error, uxda_out |-> None]

\* the branches of difference by centering and destination
DifferenceByCentering(da, destination, m) ==
    IF FaceCentered(da)
    THEN CASE destination = "edge" ->
                 [raised   |-> "none",
                  uxda_out |-> [dims   |-> WithLastDim(da.dims, "n_edge"),
                                values |-> EdgeFaceDifference(da.values,
                                               EdgeFaceConnectivity(m), NEdge(m))]]
           [] destination = "face" -> Raises(FaceToFace)
           [] destination = "node" -> Raises(FaceToNode)
           [] OTHER -> Raises(UnboundLocalError)
    ELSE IF NodeCentered(da)
    THEN CASE destination = "edge" ->
                 [raised   |-> "none",
                  uxda_out |-> [dims   |-> WithLastDim(da.dims, "n_edge"),
                                values |-> EdgeNodeDifference(da.values,
                                               EdgeNodeConnectivity(m))]]
           [] destination = "node" -> Raises(NodeToNode)
           [] destination = "face" -> Raises(NodeToFace)
           [] OTHER -> Raises(UnboundLocalError)
    ELSE IF EdgeCentered(da)
    THEN Raises(EdgeNotImplemented)
    ELSE Raises(NoCentering)

\* difference, had it not looked at the destination first
DifferenceUnchecked(da, destination, m) == DifferenceByCentering(da, destination, m)

\* UxDataArray.difference(destination) of the field da on mesh m
Difference(da, destination, m) ==
    IF destination \notin {"node", "edge", "face"}
    THEN Raises(InvalidDestination)
    ELSE DifferenceByCentering(da, destination, m)

UseMagnitudeWarning == "UserWarning: Gradients can only be represented in terms of their absolute value"

\* gradient, had it given the signed gradient when the magnitude is not
\* asked for
GradientSigned(da, use_magnitude, m) ==
    IF ~FaceCentered(da)
    THEN [raised |-> GradientNotFaceCentered, warned |-> <<>>, uxda_out |-> None]
    ELSE LET edge_faces == EdgeFaceConnectivity(m)
         IN  [raised   |-> "none",
              warned   |-> IF use_magnitude = FALSE THEN << UseMagnitudeWarning >> ELSE <<>>,
              uxda_out |-> [dims   |-> WithLastDim(da.dims, "n_edge"),
                            values |-> IF use_magnitude
                                       THEN GradOnEdgeFromFaces(da.values, edge_faces,
                                                EdgeFaceDistances(m), NEdge(m))
                                       ELSE OverEdges(da.values, NEdge(m), edge_faces, FALSE)]]

\* UxDataArray.gradient(use_magnitude=...) of the field da on mesh m
Gradient(da, use_magnitude, m) ==
    IF ~FaceCentered(da)
    THEN [raised |-> GradientNotFaceCentered, warned |-> <<>>, uxda_out |-> None]
    ELSE [raised   |-> "none",
          warned   |-> IF use_magnitude = FALSE THEN << UseMagnitudeWarning >> ELSE <<>>,
          uxda_out |-> [dims   |-> WithLastDim(da.dims, "n_edge"),
                        values |-> GradOnEdgeFromFaces(da.values, EdgeFaceConnectivity(m),
                                                       EdgeFaceDistances(m), NEdge(m))]]

\* uxda.difference(destination)
CallDifference ==
    /\ arguments = None
    /\ \E destination \in Destinations :
       \E r \in { Difference(uxda, destination, mesh) } :
          /\ arguments' = [method |-> "difference", destination |-> destination]
          /\ raised' = r.raised
          /\ uxda_out' = r.uxda_out
    /\ UNCHANGED <<uxda, grid_calls, gdf, poly_collection, warned>>
    /\ UNCHANGED geometry_vars
    /\ UNCHANGED remap_call
    /\ UNCHANGED session_vars
    /\ UNCHANGED plot_vars

\* uxda.gradient(use_magnitude=...)
CallGradient ==
    /\ arguments = None
    /\ \E use_magnitude \in BOOLEAN :
       \E r \in { Gradient(uxda, use_magnitude, mesh) } :
          /\ arguments' = [method |-> "gradient", use_magnitude |-> use_magnitude]
          /\ raised' = r.raised
          /\ warned' = r.warned
          /\ uxda_out' = r.uxda_out
    /\ UNCHANGED <<uxda, grid_calls, gdf, poly_collection>>
    /\ UNCHANGED geometry_vars
    /\ UNCHANGED remap_call
    /\ UNCHANGED session_vars
    /\ UNCHANGED plot_vars

NextOperators == CallDifference \/ CallGradient

SpecOperators == InitExport /\ [][NextOperators]_vars

(***************************************************************************)
(* The differences and the gradient.                                       *)
(***************************************************************************)
CalledDifference == arguments # None /\ arguments.method = "difference"

CalledGradient == arguments # None /\ arguments.method = "gradient"

\* the pairs of centering and destination that difference computes
Supported(da, destination) ==
    destination = "edge" /\ (FaceCentered(da) \/ NodeCentered(da))

\* C16: difference returns a result only of a face-centered or node-centered
\* field with destination edge; of every other pair of a centering and a
\* destination among node, edge, face it raises an error and returns
\* nothing; any other destination is rejected as invalid whatever the
\* centering is.
DifferenceOnlyToEdges ==
    CalledDifference =>
        IF arguments.destination \in {"node", "edge", "face"}
        THEN IF Supported(uxda, arguments.destination)
             THEN raised = "none" /\ uxda_out # None
             ELSE raised \notin {"none", InvalidDestination} /\ uxda_out = None
        ELSE raised = InvalidDestination /\ uxda_out = None

\* difference is called with an unknown destination on a face-centered field
DifferenceOnlyToEdgesWitness ==
    /\ CalledDifference
    /\ arguments.destination = "cell"
    /\ FaceCentered(uxda)
    /\ raised = InvalidDestination

\* difference gives the result of a node-centered field on the edges
DifferenceResultWitness ==
    /\ CalledDifference
    /\ NodeCentered(uxda)
    /\ uxda_out # None
    /\ Last(uxda_out.dims) = "n_edge"
    /\ \E p \in DOMAIN uxda_out.values.flat : uxda_out.values.flat[p] > 0

\* difference rejected a pair of a centering and a known destination
RejectedPair ==
    /\ CalledDifference
    /\ arguments.destination \in {"node", "edge", "face"}
    /\ raised # "none"

\* C17: every unsupported pair is reported with the same kind of error: the
\* kind raised for an edge-centered field is the kind raised for a
\* face-centered field with destination face.
DifferenceErrorsUniform ==
    RejectedPair => KindOf(raised) = KindOf(FaceToFace)

\* the unsupported pairs of a face-centered or node-centered field are
\* reported with one kind of error
DifferenceErrorsUniformOffEdges ==
    RejectedPair /\ (FaceCentered(uxda) \/ NodeCentered(uxda))
        => KindOf(raised) = KindOf(FaceToFace)

GradientRejectsWitness ==
    /\ CalledGradient
    /\ NodeCentered(uxda)
    /\ raised = GradientNotFaceCentered

(***************************************************************************)
(* A session: remaps from a mesh and geometry exports of fields on it, one *)
(* call after the other, and what the mesh has cached between them.        *)
(***************************************************************************)
\* everything the mesh has cached: the spatial indices by (element kind,
\* coordinate system), the exported geometry by its antimeridian policy, and
\* the lazily built geometry
GridCaches ==
    [ball_trees                |-> cached.ball_trees,
     gdf                       |-> cached.gdf,
     poly_collection           |-> cached.poly_collection,
     polygon_shells            |-> polygon_shells,
     antimeridian_face_indices |-> antimeridian_face_indices,
     corrected_polygon_shells  |-> corrected_polygon_shells,
     original_to_corrected     |-> original_to_corrected]

\* the caches of a mesh nothing was called on
EmptyCaches ==
    [ball_trees                |-> {},
     gdf                       |-> None,
     poly_collection           |-> None,
     polygon_shells            |-> None,
     antimeridian_face_indices |-> None,
     corrected_polygon_shells  |-> None,
     original_to_corrected     |-> None]

\* the mesh keeps the caches c
Store(c) ==
    /\ cached' = [ball_trees      |-> c.ball_trees,
                  gdf             |-> c.gdf,
                  poly_collection |-> c.poly_collection]
    /\ polygon_shells' = c.polygon_shells
    /\ antimeridian_face_indices' = c.antimeridian_face_indices
    /\ corrected_polygon_shells' = c.corrected_polygon_shells
    /\ original_to_corrected' = c.original_to_corrected

\* source_grid.get_ball_tree(...) for each of the requests: the index of a
\* (kind, coordinate system) is built by the first request and kept
GetBallTrees(c, requests) == [c EXCEPT !.ball_trees = @ \cup Range(requests)]

\* Grid.polygon_shells, Grid.antimeridian_face_indices and
\* Grid.corrected_polygon_shells: built when first read, then kept
GridPolygonShells(c, m) ==
    IF c.polygon_shells # None THEN c
    ELSE [c EXCEPT !.polygon_shells = ShellsOf(m).polygon_shells]

GridAntimeridianFaceIndices(c, m) ==
    LET b == GridPolygonShells(c, m)
    IN  IF b.antimeridian_face_indices # None THEN b
        ELSE [b EXCEPT !.antimeridian_face_indices =
                            BuildAntimeridianFaceIndices(b.polygon_shells)]

GridCorrectedPolygonShells(c, m, parts) ==
    LET b == GridPolygonShells(c, m)
        built == BuildCorrectedPolygonShells(b.polygon_shells, parts)
    IN  IF b.corrected_polygon_shells # None THEN b
        ELSE [b EXCEPT !.corrected_polygon_shells = built.shells,
                       !.original_to_corrected = built.map]

\* Grid.to_geodataframe(exclude_antimeridian) on a mesh with the caches c:
\* the table cached for this policy if there is one, else a new one, which
\* is cached
GridToGeodataframeCached(c, m, parts, exclude_antimeridian) ==
    IF c.gdf # None /\ c.gdf.exclude_antimeridian = exclude_antimeridian
    THEN [caches |-> c, gdf |-> c.gdf.table]
    ELSE LET b     == GridAntimeridianFaceIndices(c, m)
             table == GridToGeodataframe(b.polygon_shells, b.antimeridian_face_indices,
                                         parts, exclude_antimeridian)
         IN  [caches |-> [b EXCEPT !.gdf = [exclude_antimeridian |-> exclude_antimeridian,
                                            table |-> table]],
              gdf    |-> table]

\* Grid.to_polycollection(periodic_elements, return_indices=True) on a mesh
\* with the caches c: the collection cached for this policy if there is one,
\* else a new one, which is cached; another word than the three policies is
\* an error and nothing is built
GridToPolycollectionCached(c, m, parts, periodic_elements) ==
    IF periodic_elements \notin {"include", "exclude", "split"}
    THEN [caches |-> c, from_grid |-> GridToPolycollection(<<>>, None, parts, periodic_elements)]
    ELSE IF c.poly_collection # None
            /\ c.poly_collection.periodic_elements = periodic_elements
    THEN [caches |-> c, from_grid |-> c.poly_collection.from_grid]
    ELSE LET b == IF periodic_elements = "split"
                  THEN GridCorrectedPolygonShells(c, m, parts)
                  ELSE GridAntimeridianFaceIndices(c, m)
             from_grid ==
                  IF periodic_elements = "split"
                  THEN [raised |-> "none", rings |-> b.corrected_polygon_shells,
                        corrected_to_original_faces |-> b.original_to_corrected]
                  ELSE GridToPolycollection(b.polygon_shells, b.antimeridian_face_indices,
                                            parts, periodic_elements)
         IN  [caches |-> [b EXCEPT !.poly_collection =
                                      [periodic_elements |-> periodic_elements,
                                       from_grid |-> from_grid]],
              from_grid |-> from_grid]

\* gdf[var_name] = data on the table the grid returned: the table is the
\* one the mesh holds, so the column is set on the cached table
KeepColumn(c, r) == IF r.raised = "none" THEN [c EXCEPT !.gdf.table = r.gdf] ELSE c

\* the errors of a call that is rejected for its arguments or its field
Rejections ==
    {InvalidShape, InvalidRemapTo, InvalidCoordType,
     NotOneDimensional, SizeMatchesNodes, SizeMismatch, NotFaceCentered}

\* the shapes of the source data of the session's remaps: on the faces, and
\* of no element kind
SessionShapes(grid) == { << grid.n_face >>, << grid.n_edge + 1 >> }

\* the remap_to of the session's remaps: a kind, and a word that is none
SessionRemapTos == {"face centers", "cells"}

\* antimeridian.fix_polygon is a function of the polygon: every call of a
\* session gets the same parts of a face, here as many as the fix can make
SessionSplit(m) ==
    [f \in 1..NFace(m) |->
        IF CrossesAntimeridian(ShellsOf(m).polygon_shells[f]) THEN MaxParts ELSE 1]

\* the fields of the session's exports: one on each kind of element, one on
\* another dimension, and one of two dimensions
SessionFields(m) ==
    { UxDataArray(m, dims, MaxLead) :
        dims \in DimChoices \ { <<>>, << "time", "n_node" >> } }

\* the mesh as the remapping sees it: its counts and its coordinates
GridOf(m) == MakeGrid(NNode(m), NFace(m), RegularLayout)

\* a mesh of one to MaxFaces triangles on three nodes, the first and the last
\* of them on one meridian and the second on it or east of it
InitSession ==
    /\ \E n_face \in 1..MaxFaces, node_x \in [1..3 -> ExportLongitudes] :
          /\ node_x[1] = node_x[3]
          /\ node_x[1] <= node_x[2]
          /\ mesh = MakeMesh(node_x, [f \in 1..n_face |-> FaceRow(f - 1, 3, 3, 3)])
    /\ source_grid = GridOf(mesh)
    /\ destination_grid = GridOf(mesh)
    /\ source_data = None
    /\ remap_to = Unset
    /\ coord_type = Unset
    /\ pc = "idle"
    /\ entry = Unset
    /\ raised = "none"
    /\ tree_requests = <<>>
    /\ nearest_neighbor_indices = None
    /\ destination_data = None
    /\ uxda_remap = None
    /\ polygon_shells = None
    /\ antimeridian_face_indices = None
    /\ corrected_polygon_shells = None
    /\ original_to_corrected = None
    /\ polygons = None
    /\ NoDataArray
    /\ cached = NothingCached
    /\ replayed = EmptyCaches
    /\ fix_polygon_calls = <<>>
    /\ NoPlot

\* _nearest_neighbor(mesh, mesh, source_data, remap_to, coord_type)
RemapFromMesh ==
    /\ \E shape \in SessionShapes(source_grid), to \in SessionRemapTos,
          coords \in CoordTypes, tie \in TieBreaks :
       \E data \in { Arange(shape) } :
       \E r \in { NearestNeighbor(source_grid, destination_grid, data, to, coords, tie) } :
          /\ source_data' = data
          /\ remap_to' = to
          /\ coord_type' = coords
          /\ raised' = r.raised
          /\ tree_requests' = r.tree_requests
          /\ nearest_neighbor_indices' = r.nearest_neighbor_indices
          /\ destination_data' = r.destination_data
          /\ Store(GetBallTrees(GridCaches, r.tree_requests))
          /\ replayed' = IF r.raised \in Rejections THEN replayed
                         ELSE GetBallTrees(replayed, r.tree_requests)
    /\ entry' = "_nearest_neighbor"
    /\ pc' = "done"
    /\ uxda' = None
    /\ arguments' = None
    /\ grid_calls' = <<>>
    /\ gdf' = None
    /\ poly_collection' = None
    /\ UNCHANGED <<source_grid, destination_grid, uxda_remap, mesh, polygons,
                   uxda_out, warned>>
    /\ UNCHANGED fix_polygon_calls
    /\ UNCHANGED plot_vars

\* the remapping variables of a call that is not a remap
NoRemap ==
    /\ source_data' = None
    /\ remap_to' = Unset
    /\ coord_type' = Unset
    /\ tree_requests' = <<>>
    /\ nearest_neighbor_indices' = None
    /\ destination_data' = None
    /\ pc' = "done"
    /\ UNCHANGED <<source_grid, destination_grid, uxda_remap>>

\* uxda.to_geodataframe(exclude_antimeridian=...) of a field on the mesh
GeodataframeOfMesh ==
    /\ \E da \in SessionFields(mesh), exclude_antimeridian \in BOOLEAN :
       \E parts \in { SessionSplit(mesh) } :
       \E g \in { GridToGeodataframeCached(GridCaches, mesh, parts,
                                           exclude_antimeridian) } :
       \E r \in { ToGeodataframe(da, mesh, exclude_antimeridian, g.gdf,
                                 g.caches.antimeridian_face_indices) } :
          /\ uxda' = da
          /\ arguments' = [method |-> "to_geodataframe",
                           exclude_antimeridian |-> exclude_antimeridian]
          /\ raised' = r.raised
          /\ grid_calls' = r.grid_calls
          /\ gdf' = r.gdf
          /\ Store(IF r.grid_calls = <<>> THEN GridCaches
                   ELSE KeepColumn(g.caches, r))
          /\ replayed' =
                IF r.raised \in Rejections \/ r.grid_calls = <<>> THEN replayed
                ELSE KeepColumn(GridToGeodataframeCached(replayed, mesh, parts,
                                                         exclude_antimeridian).caches, r)
    /\ entry' = "to_geodataframe"
    /\ poly_collection' = None
    /\ NoRemap
    /\ UNCHANGED <<mesh, polygons, uxda_out, warned>>
    /\ UNCHANGED fix_polygon_calls
    /\ UNCHANGED plot_vars

\* uxda.to_polycollection(periodic_elements=...) of a field on the mesh
PolycollectionOfMesh ==
    /\ \E da \in SessionFields(mesh), periodic_elements \in PeriodicElements :
       \E parts \in { SessionSplit(mesh) } :
       \E g \in { GridToPolycollectionCached(GridCaches, mesh, parts,
                                             periodic_elements) } :
       \E r \in { ToPolycollection(da, periodic_elements, FALSE, g.from_grid) } :
          /\ uxda' = da
          /\ arguments' = [method |-> "to_polycollection",
                           periodic_elements |-> periodic_elements,
                           return_indices |-> FALSE]
          /\ raised' = r.raised
          /\ grid_calls' = r.grid_calls
          /\ poly_collection' = r.poly_collection
          /\ Store(IF r.grid_calls = <<>> THEN GridCaches ELSE g.caches)
          /\ replayed' =
                IF r.raised \in Rejections \/ r.grid_calls = <<>> THEN replayed
                ELSE GridToPolycollectionCached(replayed, mesh, parts,
                                                periodic_elements).caches
    /\ entry' = "to_polycollection"
    /\ gdf' = None
    /\ NoRemap
    /\ UNCHANGED <<mesh, polygons, uxda_out, warned>>
    /\ UNCHANGED fix_polygon_calls
    /\ UNCHANGED plot_vars

NextSession == RemapFromMesh \/ GeodataframeOfMesh \/ PolycollectionOfMesh

SpecSession == InitSession /\ [][NextSession]_vars

\* C18: in a session of remaps and geometry exports on one mesh, the mesh's
\* cached spatial indices and cached geometry are what the calls that were
\* not rejected leave, and a call that was rejected (invalid shape, remap_to
\* or coord_type; a field of more than one dimension, not of the size of the
\* faces, or not face-centered) has requested no spatial index and called
\* nothing on the mesh.
RejectedCallsLeaveCaches ==
    /\ replayed # None => GridCaches = replayed
    /\ (replayed # None /\ raised \in Rejections) =>
          /\ tree_requests = <<>>
          /\ grid_calls = <<>>

\* a call was rejected after other calls had filled the caches
RejectedCallsLeaveCachesWitness ==
    /\ replayed # None
    /\ raised \in Rejections
    /\ cached.ball_trees # {}
    /\ cached.gdf # None
    /\ cached.poly_collection # None
    /\ corrected_polygon_shells # None

(***************************************************************************)
(* The two coordinate systems of the remapping.                            *)
(***************************************************************************)
\* no two elements of one kind of the mesh at the same position
NoDuplicateCoordinates(grid) ==
    \A kind \in Kinds : PairwiseDistinct(LonLatOf(grid, kind))

\* the other coordinate system
OtherCoordType == IF coord_type = "spherical" THEN "cartesian" ELSE "spherical"

\* what the same call in the other coordinate system can return
InOtherCoordType ==
    { NearestNeighbor(source_grid, destination_grid, source_data, remap_to,
                      OtherCoordType, tie) : tie \in TieBreaks }

\* the destination points (1-based) and the source elements nearest to one,
\* in the coordinate system of the call
DestinationIndices == 1..Count(destination_grid, remap_to)

NearestOf(j) ==
    Nearest(GetBallTree(source_grid, Anchor, coord_type),
            DestinationPoints(destination_grid, remap_to, coord_type)[j])

\* the nearest indices a call returned, in the order of the destination points
IndicesOf(r) == r.nearest_neighbor_indices.flat

\* C20, as stated: for a source mesh without duplicate coordinates the call
\* in the other coordinate system resolves the same nearest source index for
\* every destination point, and returns the same remapped field.
CoordinateSystemsAgree ==
    (Returned /\ NoDuplicateCoordinates(source_grid)) =>
        \A o \in InOtherCoordType :
            /\ IndicesOf(o) = nearest_neighbor_indices.flat
            /\ o.destination_data = destination_data

\* C20: for a source mesh without duplicate coordinates the call in the other
\* coordinate system resolves the same nearest source index for every
\* destination point that has one nearest source element, and returns the
\* same remapped field when every destination point has one.
CoordinateSystemsAgreeOffTies ==
    (Returned /\ NoDuplicateCoordinates(source_grid)) =>
        \A o \in InOtherCoordType :
            /\ \A j \in DestinationIndices :
                  Cardinality(NearestOf(j)) = 1 =>
                      IndicesOf(o)[j] = nearest_neighbor_indices.flat[j]
            /\ (\A j \in DestinationIndices : Cardinality(NearestOf(j)) = 1) =>
                  o.destination_data = destination_data

\* a remap in Cartesian coordinates from several distinct source elements to
\* several destination points, each with one nearest source element
CoordinateSystemsAgreeOffTiesWitness ==
    /\ Returned
    /\ coord_type = "cartesian"
    /\ NoDuplicateCoordinates(source_grid)
    /\ Count(source_grid, Anchor) > 1
    /\ Count(destination_grid, remap_to) > 1
    /\ \A j \in DestinationIndices : Cardinality(NearestOf(j)) = 1
    /\ \E i, j \in DestinationIndices : NN(i - 1) # NN(j - 1)

\* a destination point at the same distance from two source elements
CoordinateSystemsTieWitness ==
    /\ Returned
    /\ NoDuplicateCoordinates(source_grid)
    /\ \E j \in DestinationIndices : Cardinality(NearestOf(j)) > 1

(***************************************************************************)
(* The faces the corrected shells leave alone.                             *)
(***************************************************************************)
\* C21: in the corrected shells every face that does not cross the
\* antimeridian has exactly one part, that part is the face's shell as it
\* was, and only the polygons of faces that cross the antimeridian were given
\* to the antimeridian fix.
UnflaggedFacesPassThrough ==
    corrected_polygon_shells # None =>
        /\ \A f \in Faces :
              ~CrossesAntimeridian(polygon_shells[f]) =>
                  /\ Entries(f - 1) = 1
                  /\ corrected_polygon_shells[FirstEntry(f - 1)] = polygon_shells[f]
        /\ \A p \in DOMAIN fix_polygon_calls :
              CrossesAntimeridian(polygon_shells[fix_polygon_calls[p] + 1])

\* the part of it about the output: one part per face off the antimeridian,
\* the face's shell
UnflaggedFacesKeepShell ==
    corrected_polygon_shells # None =>
        \A f \in Faces :
            ~CrossesAntimeridian(polygon_shells[f]) =>
                /\ Entries(f - 1) = 1
                /\ corrected_polygon_shells[FirstEntry(f - 1)] = polygon_shells[f]

\* the corrected shells are built of a mesh with a face off the antimeridian
\* after a face that is cut
UnflaggedFacesKeepShellWitness ==
    /\ corrected_polygon_shells # None
    /\ \E f, g \in Faces :
          /\ f < g
          /\ CrossesAntimeridian(polygon_shells[f])
          /\ Entries(f - 1) > 1
          /\ ~CrossesAntimeridian(polygon_shells[g])

(***************************************************************************)
(* The table of the mesh: to_geodataframe of named fields, one call after  *)
(* the other.  The table the grid has cached and the table it returns are  *)
(* one object, so a column set on the returned table is set on the cached  *)
(* one.                                                                    *)
(***************************************************************************)
\* the names of the fields; a field can have none
FieldNames == {"t2m", "psi", Unset}

\* a face-centered field of that name on mesh m
NamedField(m, name) ==
    [name   |-> name,
     dims   |-> << "n_face" >>,
     values |-> Arange(<< NFace(m) >>)]

\* var_name = self.name if self.name is not None else "var"
VarName(da) == IF da.name = Unset THEN "var" ELSE da.name

\* gdf[var_name] = data: the table with that column set; its other columns
\* stay
SetColumn(table, var_name, data) ==
    [table EXCEPT !.columns =
        [n \in DOMAIN table.columns \cup {var_name} |->
            IF n = var_name THEN data ELSE table.columns[n]]]

\* Grid.to_geodataframe(override, cache, exclude_antimeridian) on a mesh with
\* the caches c: the cached table itself when there is one for this policy
\* and no override is asked for, else a new table of the geometry alone,
\* which is kept when cache is set.  held tells whether the table returned
\* is the one the mesh holds.
GridToGeodataframeObject(c, m, parts, override, cache, exclude_antimeridian) ==
    LET b == GridAntimeridianFaceIndices(c, m)
        table == [geometry |-> GridToGeodataframe(b.polygon_shells,
                                                  b.antimeridian_face_indices, parts,
                                                  exclude_antimeridian).geometry,
                  columns  |-> << >>]
    IN  IF c.gdf # None /\ c.gdf.exclude_antimeridian = exclude_antimeridian
           /\ ~override
        THEN [caches |-> c, table |-> c.gdf.table, held |-> TRUE]
        ELSE IF cache
        THEN [caches |-> [b EXCEPT !.gdf = [exclude_antimeridian |-> exclude_antimeridian,
                                            table |-> table]],
              table  |-> table, held |-> TRUE]
        ELSE [caches |-> b, table |-> table, held |-> FALSE]

\* uxda.to_geodataframe(override, cache, exclude_antimeridian) of a named
\* face-centered field on the mesh
CallToGeodataframeNamed ==
    /\ \E name \in FieldNames, exclude_antimeridian \in BOOLEAN,
          cache \in BOOLEAN, override \in BOOLEAN :
       \E da \in { NamedField(mesh, name) } :
       \E g \in { GridToGeodataframeObject(GridCaches, mesh, SessionSplit(mesh),
                                           override, cache, exclude_antimeridian) } :
       \E r \in { ToGeodataframe(da, mesh, exclude_antimeridian, g.table,
                                 g.caches.antimeridian_face_indices) } :
       \E table \in { IF r.raised = "none"
                      THEN SetColumn(g.table, VarName(da), r.gdf.var)
                      ELSE None } :
          /\ uxda' = da
          /\ arguments' = [method |-> "to_geodataframe",
                           name |-> name,
                           exclude_antimeridian |-> exclude_antimeridian,
                           cache |-> cache,
                           override |-> override,
                           previous |-> IF arguments = None THEN None
                                        ELSE [arguments EXCEPT !.previous = None]]
          /\ raised' = r.raised
          /\ grid_calls' = r.grid_calls
          /\ gdf' = table
          /\ Store(IF r.raised = "none" /\ g.held
                   THEN [g.caches EXCEPT !.gdf.table = table]
                   ELSE g.caches)
    /\ entry' = "to_geodataframe"
    /\ NoRemap
    /\ UNCHANGED <<mesh, polygons, fix_polygon_calls, poly_collection, uxda_out,
                   warned, replayed>>
    /\ UNCHANGED plot_vars

NextTables == CallToGeodataframeNamed

SpecTables == InitSession /\ [][NextTables]_vars

\* two calls one after the other, of fields of two names, both with
\* cache=True and override=False and with the same exclude_antimeridian
TwoFieldsOneTable ==
    /\ arguments # None
    /\ arguments.previous # None
    /\ arguments.cache /\ arguments.previous.cache
    /\ ~arguments.override /\ ~arguments.previous.override
    /\ arguments.exclude_antimeridian = arguments.previous.exclude_antimeridian
    /\ VarName(uxda) # VarName(NamedField(mesh, arguments.previous.name))

\* C22: after to_geodataframe of two fields of different names, one after
\* the other (cache=True, override=False, the same exclude_antimeridian), the
\* table returned for the second field has the geometry and the second
\* field's data column and no other, and the table cached on the mesh has no
\* data column.
SecondTableHoldsOwnColumn ==
    TwoFieldsOneTable =>
        /\ DOMAIN gdf.columns = { VarName(uxda) }
        /\ DOMAIN cached.gdf.table.columns = {}

\* the table of a call that made the grid build a new table and keep none
\* has the geometry and the field's own column
FreshTableHoldsOwnColumn ==
    (arguments # None /\ raised = "none" /\ arguments.override /\ ~arguments.cache) =>
        DOMAIN gdf.columns = { VarName(uxda) }

\* a second field's table came from the cache
TwoFieldsOneTableWitness ==
    /\ TwoFieldsOneTable
    /\ raised = "none"
    /\ Len(gdf.geometry) > 0

(***************************************************************************)
(* HoloviewsBackend (uxarray/plot/utils.py).                               *)
(***************************************************************************)
\* the backends holoviews is asked for: the two supported ones, another one
\* and none
SupportedBackends == {"bokeh", "matplotlib"}
Backends == SupportedBackends \cup {"plotly", Unset}

UnsupportedBackend == "ValueError: Unsupported backend"

\* assign, had it activated the extension at every call
AssignAlwaysActivating(stored, name) ==
    IF name \notin SupportedBackends
    THEN [raised |-> UnsupportedBackend, hv_extensions |-> <<>>, backend |-> stored]
    ELSE [raised |-> "none", hv_extensions |-> << name >>, backend |-> name]

\* assign, had it looked at the name after activating the extension
AssignCheckingLast(stored, name) ==
    IF name # stored
    THEN [raised        |-> IF name \notin SupportedBackends
                            THEN UnsupportedBackend ELSE "none",
          hv_extensions |-> << name >>,
          backend       |-> name]
    ELSE [raised |-> "none", hv_extensions |-> <<>>, backend |-> stored]

\* HoloviewsBackend.assign(backend) on an object whose backend is stored:
\* what it raised, the calls of hv.extension it made, and the backend stored
\* after it
Assign(stored, name) ==
    IF name \notin SupportedBackends
    THEN [raised |-> UnsupportedBackend, hv_extensions |-> <<>>, backend |-> stored]
    ELSE IF name # stored
    THEN [raised |-> "none", hv_extensions |-> << name >>, backend |-> name]
    ELSE [raised |-> "none", hv_extensions |-> <<>>, backend |-> stored]

InitPlot ==
    /\ NoPlot
    /\ NoSession
    /\ NoDataArray
    /\ mesh = None
    /\ polygon_shells = None
    /\ antimeridian_face_indices = None
    /\ corrected_polygon_shells = None
    /\ original_to_corrected = None
    /\ polygons = None
    /\ fix_polygon_calls = <<>>
    /\ source_grid = None
    /\ destination_grid = None
    /\ source_data = None
    /\ remap_to = Unset
    /\ coord_type = Unset
    /\ pc = "idle"
    /\ entry = Unset
    /\ raised = "none"
    /\ tree_requests = <<>>
    /\ nearest_neighbor_indices = None
    /\ destination_data = None
    /\ uxda_remap = None

\* backend.assign(name)
CallAssign ==
    /\ Len(assigned) < MaxAssigns
    /\ \E name \in Backends :
       \E r \in { Assign(backend, name) } :
          /\ assigned' = Append(assigned, name)
          /\ raised' = r.raised
          /\ hv_extensions' = hv_extensions \o r.hv_extensions
          /\ backend' = r.backend
    /\ UNCHANGED remap_call
    /\ UNCHANGED geometry_vars
    /\ UNCHANGED dataarray_vars
    /\ UNCHANGED session_vars

NextPlot == CallAssign

SpecPlot == InitPlot /\ [][NextPlot]_vars

\* the supported backends among the requests, each run of one backend
\* counted once
RECURSIVE Activations(_)
Activations(requests) ==
    IF requests = <<>> THEN <<>>
    ELSE LET before == Activations(Front(requests))
             name   == Last(requests)
         IN  IF name \in SupportedBackends
                /\ (before = <<>> \/ Last(before) # name)
             THEN Append(before, name)
             ELSE before

\* C23: the stored backend is None as long as no extension was activated and
\* else the backend of the last activation, it is None, "bokeh" or
\* "matplotlib", and the extension was activated at exactly the calls whose
\* supported backend was not the stored one: a repeated backend is activated
\* once.
BackendIsLastActivation ==
    /\ backend \in SupportedBackends \cup {Unset}
    /\ backend = IF hv_extensions = <<>> THEN Unset ELSE Last(hv_extensions)
    /\ hv_extensions = Activations(assigned)

\* a backend was assigned twice in a row after another one
BackendIsLastActivationWitness ==
    /\ Len(assigned) >= 3
    /\ assigned[Len(assigned)] = assigned[Len(assigned) - 1]
    /\ assigned[Len(assigned)] \in SupportedBackends
    /\ Len(hv_extensions) = 2
    /\ backend = Last(assigned)

\* a step that is a call of assign with an unsupported backend
UnsupportedAssign ==
    /\ Len(assigned') = Len(assigned) + 1
    /\ Last(assigned') \notin SupportedBackends

\* C24: a call of assign with another name than "bokeh" and "matplotlib"
\* raises, activates no extension and leaves the stored backend as it was.
UnsupportedBackendRejected ==
    [][UnsupportedAssign =>
          /\ raised' = UnsupportedBackend
          /\ hv_extensions' = hv_extensions
          /\ backend' = backend]_vars

\* an unsupported backend was asked for after a backend was stored
UnsupportedBackendRejectedWitness ==
    /\ raised = UnsupportedBackend
    /\ Len(assigned) >= 2
    /\ Last(assigned) \notin SupportedBackends
    /\ backend \in SupportedBackends

(***************************************************************************)
(* The element kind the source data is anchored to.                        *)
(***************************************************************************)
\* the kinds whose count is the trailing length of the source data
Matching ==
    { kind \in Kinds : Count(source_grid, kind) = Last(source_data.shape) }

\* the kinds in the order of their priority, and the first matching one
Priority == << "nodes", "edge centers", "face centers" >>

FirstMatching ==
    Priority[MinOf({ i \in DOMAIN Priority : Priority[i] \in Matching })]

\* C25: the source data is rejected for its shape only when no kind has its
\* trailing length; else it is anchored to the one matching kind or, of
\* several, to the first of nodes, edge centers, face centers, and the one
\* spatial index requested is the index of that kind, whatever remap_to is:
\* the nearest indices are what the index over that kind's coordinates gives.
AnchoredByPriority ==
    (pc = "done" /\ entry \in {"_nearest_neighbor", "_nearest_neighbor_uxda"}) =>
        /\ raised = InvalidShape <=> Matching = {}
        /\ (Matching # {} /\ raised \notin {InvalidRemapTo, InvalidCoordType}) =>
              /\ tree_requests = << << FirstMatching, coord_type >> >>
              /\ Cardinality(Matching) = 1 => Matching = { tree_requests[1][1] }
              /\ \E tie \in TieBreaks :
                    nearest_neighbor_indices =
                        Query(GetBallTree(source_grid, FirstMatching, coord_type),
                              DestinationPoints(destination_grid, remap_to, coord_type),
                              tie)
        /\ raised \in {InvalidShape, InvalidRemapTo, InvalidCoordType} =>
              tree_requests = <<>>

\* data whose trailing length is the count of two kinds was remapped to
\* elements of another kind than it is anchored to
AnchoredByPriorityWitness ==
    /\ Returned
    /\ Cardinality(Matching) > 1
    /\ remap_to # FirstMatching
    /\ remap_to \in Matching

\* data whose trailing length is the count of the faces alone
AnchoredToFacesWitness ==
    /\ Returned
    /\ Matching = {"face centers"}
    /\ remap_to = "nodes"

(***************************************************************************)
(* The shape of the antimeridian face indices.                             *)
(***************************************************************************)
\* the faces (0-based) with a shell that crosses the antimeridian
CrossingFaces == { f - 1 : f \in { g \in Faces : CrossesAntimeridian(polygon_shells[g]) } }

\* C26: the antimeridian face indices are an array of one dimension, as
\* long as there are faces that cross the antimeridian (none, one or
\* several), holding their indices in strictly ascending order; and
\* grid_to_polygons, which selects with it and walks it in reverse, gives the
\* fix those faces in that order and returns one geometry per face.
AntimeridianIndicesOneDimensional ==
    /\ antimeridian_face_indices # None =>
          /\ Ndim(antimeridian_face_indices) = 1
          /\ antimeridian_face_indices.shape[1] = Cardinality(CrossingFaces)
          /\ Len(antimeridian_face_indices.flat) = Cardinality(CrossingFaces)
          /\ Range(antimeridian_face_indices.flat) = CrossingFaces
          /\ \A p \in 1..(Len(antimeridian_face_indices.flat) - 1) :
                antimeridian_face_indices.flat[p] < antimeridian_face_indices.flat[p + 1]
    /\ polygons # None =>
          /\ Len(polygons) = mesh.nMesh2_face
          /\ fix_polygon_calls = antimeridian_face_indices.flat

\* the polygons are made of a mesh with one face on the antimeridian, after
\* a face off it
AntimeridianIndicesOneDimensionalWitness ==
    /\ polygons # None
    /\ mesh.nMesh2_face > 1
    /\ antimeridian_face_indices.flat = << mesh.nMesh2_face - 1 >>

\* no face on the antimeridian, and every face of several
AntimeridianIndicesEmptyWitness ==
    /\ polygons # None
    /\ antimeridian_face_indices.flat = << >>

AntimeridianIndicesSeveralWitness ==
    /\ polygons # None
    /\ Len(antimeridian_face_indices.flat) > 1
====
